---- MODULE Spec2Model ----
(***************************************************************************)
(* Model of mcap_analyzer/mcap_parser.py: McapReader (the dispatcher over  *)
(* files, topics and tasks) and TaskProcessor (directive extraction, field *)
(* lookup, coercion and expression evaluation for one message).            *)
(*                                                                         *)
(* Text (parse strings, field names, directives, file names) is modelled   *)
(* as sequences of one-character strings, so that the regular expressions  *)
(* and string methods of the source are computed character by character.   *)
(***************************************************************************)
EXTENDS Integers, Sequences, FiniteSets, TLC

(***************************************************************************)
(* Characters                                                              *)
(***************************************************************************)

\* printable ASCII in code point order, from 32 (space) to 126 (~); code point
\* 96 is held by a placeholder that no text of the model contains
Ascii ==
  << " ", "!", "\"", "#", "$", "%", "&", "'", "(", ")", "*", "+", ",", "-", ".", "/",
     "0", "1", "2", "3", "4", "5", "6", "7", "8", "9", ":", ";", "<", "=", ">", "?",
     "@", "A", "B", "C", "D", "E", "F", "G", "H", "I", "J", "K", "L", "M", "N", "O",
     "P", "Q", "R", "S", "T", "U", "V", "W", "X", "Y", "Z", "[", "\\", "]", "^", "_",
     "BACKQUOTE", "a", "b", "c", "d", "e", "f", "g", "h", "i", "j", "k", "l", "m", "n", "o",
     "p", "q", "r", "s", "t", "u", "v", "w", "x", "y", "z", "{", "|", "}", "~" >>

\* ord(c) for a printable ASCII character
Ord(c) == 31 + (CHOOSE i \in 1..Len(Ascii) : Ascii[i] = c)

Digits == {"0", "1", "2", "3", "4", "5", "6", "7", "8", "9"}

Letters == {Ascii[i] : i \in 34..59} \cup {Ascii[i] : i \in 66..91}

\* the regex class [a-zA-Z_]
IdentStart == Letters \cup {"_"}

\* the regex class \w
WordChars == Letters \cup Digits \cup {"_"}

\* the regex class [\w\.]
WordDotChars == WordChars \cup {"."}

DigitVal(c) == Ord(c) - 48

\* F applied to x: a value computed once and used under a name
With(x, F(_)) == F(x)

(***************************************************************************)
(* String methods                                                          *)
(***************************************************************************)

\* s[i:] with a 1-based i
Tail_from(s, i) == SubSeq(s, i, Len(s))

\* the least j >= i with s[j] = c, or 0 when there is none
IndexFrom(s, c, i) ==
  IF \E j \in i..Len(s) : s[j] = c
  THEN CHOOSE j \in i..Len(s) : s[j] = c /\ \A k \in i..(j - 1) : s[k] # c
  ELSE 0

StartsWithAt(s, pre, i) ==
  /\ i + Len(pre) - 1 <= Len(s)
  /\ SubSeq(s, i, i + Len(pre) - 1) = pre

\* str.split(sep) for a one-character separator: a sequence of strings
RECURSIVE split(_, _)
split(s, sep) ==
  LET j == IndexFrom(s, sep, 1)
  IN  IF j = 0 THEN <<s>>
      ELSE <<SubSeq(s, 1, j - 1)>> \o split(Tail_from(s, j + 1), sep)

\* str.strip() for the blank character
RECURSIVE strip(_)
strip(s) ==
  IF s = <<>> THEN s
  ELSE IF Head(s) = " " THEN strip(Tail(s))
  ELSE IF s[Len(s)] = " " THEN strip(SubSeq(s, 1, Len(s) - 1))
  ELSE s

\* str.replace(old, new): leftmost non-overlapping occurrences, old non-empty
RECURSIVE replace(_, _, _)
replace(s, old, new) ==
  IF s = <<>> THEN s
  ELSE IF StartsWithAt(s, old, 1)
       THEN new \o replace(Tail_from(s, Len(old) + 1), old, new)
       ELSE <<Head(s)>> \o replace(Tail(s), old, new)

\* the value of a non-empty sequence of decimal digits
RECURSIVE DigitsValue(_)
DigitsValue(s) ==
  IF s = <<>> THEN 0
  ELSE 10 * DigitsValue(SubSeq(s, 1, Len(s) - 1)) + DigitVal(s[Len(s)])

AllIn(s, class) == \A i \in 1..Len(s) : s[i] \in class

\* the length of the longest run of characters of class starting at s[i]
RECURSIVE RunLen(_, _, _)
RunLen(s, i, class) ==
  IF i > Len(s) \/ s[i] \notin class THEN 0
  ELSE 1 + RunLen(s, i + 1, class)

(***************************************************************************)
(* The regular expressions of TaskProcessor                                *)
(***************************************************************************)

\* re.sub(r'\([^)]+\)', '', s): every "(", one or more characters other than
\* ")", ")" is removed, scanning from the left
RECURSIVE re_sub_parens(_)
re_sub_parens(s) ==
  IF s = <<>> THEN s
  ELSE LET j == IndexFrom(s, ")", 2)
       IN  IF Head(s) = "(" /\ j >= 3
           THEN re_sub_parens(Tail_from(s, j + 1))
           ELSE <<Head(s)>> \o re_sub_parens(Tail(s))

\* set(re.findall(r'([a-zA-Z_][\w\.]*)', s)): the non-overlapping matches found
\* scanning from the left, each extended as far as it goes
RECURSIVE re_findall_names(_)
re_findall_names(s) ==
  IF s = <<>> THEN {}
  ELSE IF Head(s) \in IdentStart
       THEN LET n == 1 + RunLen(s, 2, WordDotChars)
            IN  {SubSeq(s, 1, n)} \cup re_findall_names(Tail_from(s, n + 1))
       ELSE re_findall_names(Tail(s))

\* the positions where re.escape(field) + r'\((.*?)\)' matches: the field's
\* text, "(", and a ")" somewhere after it
DirectiveMatches(s, field) ==
  {p \in 1..Len(s) :
     /\ StartsWithAt(s, field \o <<"(">>, p)
     /\ IndexFrom(s, ")", p + Len(field) + 1) # 0}

\* re.search(re.escape(field) + r'\((.*?)\)', s): the leftmost match; group 1
\* is the text up to the first ")" (the lazy .*?)
re_search_directive(s, field) ==
  LET ps == DirectiveMatches(s, field)
  IN  IF ps = {} THEN [found |-> FALSE, group |-> <<>>]
      ELSE LET p == CHOOSE q \in ps : \A r \in ps : q <= r
               open == p + Len(field)
               close == IndexFrom(s, ")", open + 1)
           IN  [found |-> TRUE, group |-> SubSeq(s, open + 1, close - 1)]

Str_default == <<"d", "e", "f", "a", "u", "l", "t">>
Str_type == <<"t", "y", "p", "e", ":">>
Str_byte == <<"b", "y", "t", "e", ":">>
Str_comma_type == <<",">> \o Str_type

\* re.fullmatch(r'type:(\w+)', d)
re_fullmatch_type(d) ==
  IF /\ StartsWithAt(d, Str_type, 1)
     /\ Len(d) > Len(Str_type)
     /\ AllIn(Tail_from(d, Len(Str_type) + 1), WordChars)
  THEN [found |-> TRUE, type_name |-> Tail_from(d, Len(Str_type) + 1)]
  ELSE [found |-> FALSE, type_name |-> <<>>]

\* re.fullmatch(r'byte:(\d+)-(\d+)(?:,type:(\w+))?', d); type_name is <<>> when
\* the optional group did not take part (Python's None)
re_fullmatch_byte(d) ==
  LET no == [found |-> FALSE, start |-> <<>>, length |-> <<>>, type_name |-> <<>>]
      i1 == Len(Str_byte) + 1
      n1 == RunLen(d, i1, Digits)
      dash == i1 + n1
      i2 == dash + 1
      n2 == RunLen(d, i2, Digits)
      rest == Tail_from(d, i2 + n2)
      yes == [found |-> TRUE, start |-> SubSeq(d, i1, i1 + n1 - 1),
              length |-> SubSeq(d, i2, i2 + n2 - 1), type_name |-> <<>>]
  IN  IF ~StartsWithAt(d, Str_byte, 1) \/ n1 = 0 THEN no
      ELSE IF dash > Len(d) \/ d[dash] # "-" \/ n2 = 0 THEN no
      ELSE IF rest = <<>> THEN yes
      ELSE IF /\ StartsWithAt(rest, Str_comma_type, 1)
              /\ Len(rest) > Len(Str_comma_type)
              /\ AllIn(Tail_from(rest, Len(Str_comma_type) + 1), WordChars)
           THEN [yes EXCEPT !.type_name = Tail_from(rest, Len(Str_comma_type) + 1)]
           ELSE no

(***************************************************************************)
(* Values                                                                  *)
(*                                                                         *)
(* A Python value is a record tagged by k.  Numbers are exact rationals    *)
(* num/den with their Python type: isint distinguishes int from float, np  *)
(* a NumPy scalar (what pandas' astype returns) from a built-in number.    *)
(* den = 0 is a NumPy inf (num # 0) or nan (num = 0).                      *)
(***************************************************************************)

NoneV == [k |-> "none"]
IntV(n) == [k |-> "num", np |-> FALSE, isint |-> TRUE, num |-> n, den |-> 1]
BytesV(bs) == [k |-> "bytes", v |-> bs]
ListV(vs) == [k |-> "list", v |-> vs]
MsgV(f) == [k |-> "msg", v |-> f]
EmptyTupleV == [k |-> "tuple"]

\* a result outside the fragment of Python this model computes
Unmodelled == [k |-> "unmodelled"]

IsNone(v) == v.k = "none"
IsNum(v) == v.k = "num"

Abs(n) == IF n < 0 THEN -n ELSE n

RECURSIVE Gcd(_, _)
Gcd(a, b) == IF b = 0 THEN a ELSE Gcd(b, a % b)

\* the number n/d in lowest terms, d # 0
Rat(n, d, isint, np) ==
  LET g == Gcd(Abs(n), Abs(d))
      sg == IF d < 0 THEN -1 ELSE 1
  IN  [k |-> "num", np |-> np, isint |-> isint,
       num |-> sg * (n \div g), den |-> sg * (d \div g)]

\* floor(n/d) for d > 0
FloorDiv(n, d) == n \div d

RECURSIVE IntPow(_, _)
IntPow(b, e) == IF e = 0 THEN 1 ELSE b * IntPow(b, e - 1)

(***************************************************************************)
(* Results: a value, Python's None, or a raised exception                  *)
(***************************************************************************)

Ok(v) == [st |-> "ok", v |-> v, exc |-> "", warn |-> ""]
RetNone(w) == [st |-> "none", v |-> NoneV, exc |-> "", warn |-> w]
Raise(e) == [st |-> "raise", v |-> NoneV, exc |-> e, warn |-> ""]

(***************************************************************************)
(* TaskProcessor._get_field_value                                          *)
(***************************************************************************)

\* getattr(value, name): decoded messages carry their fields as attributes;
\* the other values have no attribute named like a message field
py_getattr(value, name) ==
  IF value.k = "msg" /\ name \in DOMAIN value.v
  THEN Ok(value.v[name])
  ELSE Raise("AttributeError")

\* int(text): blanks around an optional sign and decimal digits
py_int(text) ==
  LET t == strip(text)
      signed == t # <<>> /\ Head(t) \in {"-", "+"}
      ds == IF signed THEN Tail(t) ELSE t
  IN  IF ds # <<>> /\ AllIn(ds, Digits)
      THEN Ok(IF signed /\ Head(t) = "-" THEN -DigitsValue(ds) ELSE DigitsValue(ds))
      ELSE Raise("ValueError")

\* value[i]: bytes give an int, lists an element; a negative i counts from
\* the end; other values are not subscriptable
py_getitem(value, i) ==
  IF value.k \notin {"bytes", "list"} THEN Raise("TypeError")
  ELSE LET n == Len(value.v)
           j == IF i < 0 THEN n + i + 1 ELSE i + 1
       IN  IF j < 1 \/ j > n THEN Raise("IndexError")
           ELSE IF value.k = "bytes" THEN Ok(IntV(value.v[j]))
           ELSE Ok(value.v[j])

\* one segment of the dotted path (the body of the for loop)
field_segment(value, attr) ==
  IF (\E i \in 1..Len(attr) : attr[i] = "[") /\ attr[Len(attr)] = "]"
  THEN LET parts == split(SubSeq(attr, 1, Len(attr) - 1), "[")
       IN  IF Len(parts) # 2 THEN Raise("ValueError")
           ELSE With(py_getattr(value, parts[1]), LAMBDA got :
                  IF got.st = "raise" THEN got
                  ELSE With(py_int(parts[2]), LAMBDA idx :
                         IF idx.st = "raise" THEN idx ELSE py_getitem(got.v, idx.v)))
  ELSE py_getattr(value, attr)

RECURSIVE field_walk(_, _)
field_walk(value, attrs) ==
  IF attrs = <<>> THEN Ok(value)
  ELSE With(field_segment(value, Head(attrs)), LAMBDA r :
         IF r.st = "raise" THEN r ELSE field_walk(r.v, Tail(attrs)))

\* an except clause that leaves IndexError out
CaughtByGetField_narrow == {"AttributeError", "KeyError"}

CaughtByGetField == {"AttributeError", "IndexError", "KeyError"}

\* the value at the path, None with a warning when a caught exception was
\* raised on the way, or the exception that is not caught
get_field_value(msg, field_name) ==
  With(field_walk(msg, split(field_name, ".")), LAMBDA r :
    IF r.st = "raise" /\ r.exc \in CaughtByGetField
    THEN RetNone("Failed to retrieve value")
    ELSE r)

(***************************************************************************)
(* Type names and the two decoders behind TaskProcessor._apply_directive   *)
(***************************************************************************)

Str_int == <<"i", "n", "t">>
Str_uint == <<"u", "i", "n", "t">>
Str_float == <<"f", "l", "o", "a", "t">>

\* the largest integer the model computes with
MaxInt == 2 * 1073741823 + 1

\* a type name read as family and width: int32 is ("int", 32); family "" when
\* the name is not <family><digits>
TypeOf(type_name) ==
  LET fam == IF StartsWithAt(type_name, Str_uint, 1) THEN Str_uint
             ELSE IF StartsWithAt(type_name, Str_int, 1) THEN Str_int
             ELSE IF StartsWithAt(type_name, Str_float, 1) THEN Str_float
             ELSE <<>>
      ds == Tail_from(type_name, Len(fam) + 1)
  IN  IF fam # <<>> /\ ds # <<>> /\ Len(ds) <= 2 /\ AllIn(ds, Digits)
      THEN [family |-> fam, bits |-> DigitsValue(ds)]
      ELSE [family |-> <<>>, bits |-> 0]

\* the keys of format_map: float64 float32 int64 uint64 int32 uint32 int16
\* uint16 int8 uint8
InFormatMap(type_name) ==
  LET t == TypeOf(type_name)
  IN  \/ t.family \in {Str_int, Str_uint} /\ t.bits \in {8, 16, 32, 64}
      \/ t.family = Str_float /\ t.bits \in {32, 64}

\* the dtype names pandas' astype understands, among those of this model
IsPandasDtype(type_name) ==
  LET t == TypeOf(type_name)
  IN  \/ t.family \in {Str_int, Str_uint} /\ t.bits \in {8, 16, 32, 64}
      \/ t.family = Str_float /\ t.bits \in {16, 32, 64}

\* does the integer n fit the integer type t
FitsInt(n, t) ==
  IF t.bits >= 32
  THEN t.family = Str_int \/ n >= 0
  ELSE IF t.family = Str_int
       THEN -IntPow(2, t.bits - 1) <= n /\ n < IntPow(2, t.bits - 1)
       ELSE 0 <= n /\ n < IntPow(2, t.bits)

\* the integer part of n/d, towards zero (d > 0)
Trunc(n, d) == IF n >= 0 THEN n \div d ELSE -((-n) \div d)

\* pd.Series([raw_value]).astype(type_name).iloc[0]: a NumPy scalar of the
\* named type.  An unknown name raises TypeError; a value that is no number
\* raises.  An integer outside the range of the target type is cast as the
\* installed NumPy casts it, which this model does not compute.
pandas_astype(raw_value, type_name) ==
  LET t == TypeOf(type_name)
  IN  IF ~IsPandasDtype(type_name) THEN Raise("TypeError")
      ELSE IF raw_value.k # "num" THEN Raise("ValueError")
      ELSE IF t.family = Str_float
           THEN Ok([raw_value EXCEPT !.np = TRUE, !.isint = FALSE])
      ELSE IF raw_value.den = 0 THEN Raise("ValueError")
      ELSE LET n == Trunc(raw_value.num, raw_value.den)
           IN  IF FitsInt(n, t) THEN Ok(Rat(n, 1, TRUE, TRUE))
               ELSE Ok(Unmodelled)

\* raw_value[start : start + length] for start, length >= 0
py_slice(seq, start, length) ==
  LET hi == IF start + length < Len(seq) THEN start + length ELSE Len(seq)
  IN  SubSeq(seq, start + 1, hi)

IsByte(v) == v.k = "num" /\ v.isint /\ v.den = 1 /\ v.num \in 0..255

\* bytes(x) for a bytes object or a list: the list's items must be ints of
\* 0..255
py_bytes(k, items) ==
  IF k = "bytes" THEN Ok(items)
  ELSE IF \A i \in 1..Len(items) : IsByte(items[i])
       THEN Ok([i \in 1..Len(items) |-> items[i].num])
       ELSE Raise("ValueError")

\* the unsigned little-endian value of bs when it is at most MaxInt, else -1
RECURSIVE LittleEndian(_)
LittleEndian(bs) ==
  IF bs = <<>> THEN 0
  ELSE LET hi == LittleEndian(Tail(bs))
       IN  IF hi < 0 \/ hi > (MaxInt - Head(bs)) \div 256 THEN -1
           ELSE Head(bs) + 256 * hi

\* a little-endian integer of the type t read from bs
unpack_int(t, bs) ==
  LET neg == t.family = Str_int /\ bs[Len(bs)] >= 128
      mag == IF neg THEN LittleEndian([i \in 1..Len(bs) |-> 255 - bs[i]])
             ELSE LittleEndian(bs)
  IN  IF mag < 0 \/ (neg /\ mag = MaxInt) THEN Unmodelled
      ELSE IF neg THEN IntV(-mag - 1) ELSE IntV(mag)

\* m * 2^e as a Python float, for an integer m >= 0
RECURSIVE Scale2(_, _, _)
Scale2(m, e, negative) ==
  IF m = 0 THEN Rat(0, 1, FALSE, FALSE)
  ELSE IF m % 2 = 0 /\ e < 0 THEN Scale2(m \div 2, e + 1, negative)
  ELSE IF e > 0
       THEN IF m > MaxInt \div 2 THEN Unmodelled ELSE Scale2(2 * m, e - 1, negative)
  ELSE IF -e > 30 THEN Unmodelled
  ELSE Rat(IF negative THEN -m ELSE m, IntPow(2, -e), FALSE, FALSE)

\* the bytes of bs without its leading zero bytes
RECURSIVE DropZeros(_)
DropZeros(bs) == IF bs # <<>> /\ Head(bs) = 0 THEN DropZeros(Tail(bs)) ELSE bs

\* the w low bits of n, the highest first
RECURSIVE Bits(_, _)
Bits(n, w) == IF w = 0 THEN <<>> ELSE Bits(n \div 2, w - 1) \o <<n % 2>>

\* the bits of the little-endian bytes bs, the highest first
RECURSIVE BitsOfBytes(_)
BitsOfBytes(bs) == IF bs = <<>> THEN <<>> ELSE BitsOfBytes(Tail(bs)) \o Bits(Head(bs), 8)

\* a Python float that is a NaN: the 64 bits of the double
NaNV(bits) ==
  [k |-> "num", np |-> FALSE, isint |-> FALSE, num |-> 0, den |-> 0, bits |-> bits]

\* the Python float -0.0
NegZeroV ==
  [k |-> "num", np |-> FALSE, isint |-> FALSE, num |-> 0, den |-> 1, negative |-> TRUE]

\* the double a binary32 NaN is converted to: sign, exponent of ones, the
\* fraction with its quiet bit set, 29 low zeros
double_of_float_nan(bits) ==
  <<bits[1]>> \o [i \in 1..11 |-> 1] \o <<1>> \o SubSeq(bits, 11, 32) \o [i \in 1..29 |-> 0]

\* an IEEE 754 binary32 or binary64 number read from the little-endian bs:
\* sign, biased exponent of expBits bits, fraction.  The fraction's trailing
\* zero bytes are dropped before it is made an integer.  A binary32 number is
\* made a double, the Python float.
unpack_float(t, bs) ==
  LET n == Len(bs)
      expBits == IF t.bits = 32 THEN 8 ELSE 11
      fracTop == 15 - expBits          \* fraction bits held by the byte n-1
      top2 == (bs[n] % 128) * 256 + bs[n - 1]
      expo == top2 \div IntPow(2, fracTop)
      topFrac == top2 % IntPow(2, fracTop)
      low == SubSeq(bs, 1, n - 2)
      kept == DropZeros(low)
      dropped == Len(low) - Len(kept)
      small == LittleEndian(kept)
      allOnes == IntPow(2, expBits) - 1
      bias == IntPow(2, expBits - 1) - 1
      fracBits == t.bits - 1 - expBits
      lead == IF expo = 0 THEN 0 ELSE IntPow(2, fracTop)
      headM == lead + topFrac
      e0 == (IF expo = 0 THEN 1 ELSE expo) - bias - fracBits + 8 * dropped
      negative == bs[n] >= 128
  IN  IF expo = allOnes
      THEN IF topFrac # 0 \/ kept # <<>>
           THEN NaNV(IF t.bits = 32 THEN double_of_float_nan(BitsOfBytes(bs))
                     ELSE BitsOfBytes(bs))
           ELSE [k |-> "num", np |-> FALSE, isint |-> FALSE, den |-> 0,
                 num |-> IF negative THEN -1 ELSE 1]
      ELSE IF negative /\ expo = 0 /\ topFrac = 0 /\ kept = <<>> THEN NegZeroV
      ELSE IF small < 0 \/ Len(kept) > 2 THEN Unmodelled
      ELSE Scale2(headM * IntPow(256, Len(kept)) + small, e0, negative)

\* struct.unpack(format_map[type_name], byte_slice)[0]: struct.error unless
\* the slice has exactly the size of the format
struct_unpack(type_name, byte_slice) ==
  LET t == TypeOf(type_name)
  IN  IF Len(byte_slice) # t.bits \div 8 THEN Raise("struct.error")
      ELSE IF t.family = Str_float THEN Ok(unpack_float(t, byte_slice))
      ELSE Ok(unpack_int(t, byte_slice))

(***************************************************************************)
(* TaskProcessor._apply_directive                                          *)
(***************************************************************************)

\* the byte branch, after the directive matched with start, length and an
\* optional type_name
apply_byte_directive(raw_value, m) ==
  LET start == DigitsValue(m.start)
      length == DigitsValue(m.length)
  IN  IF raw_value.k \notin {"bytes", "list"}
      THEN RetNone("The 'byte' directive can only be applied to bytes or list/array types")
      ELSE With(py_bytes(raw_value.k, py_slice(raw_value.v, start, length)), LAMBDA sl :
             IF sl.st = "raise" THEN sl
             ELSE IF Len(sl.v) < length
                  THEN RetNone("Byte slice is shorter than the requested length")
             ELSE IF m.type_name # <<>>
                  THEN IF ~InFormatMap(m.type_name) THEN Raise("ValueError: Unsupported type")
                       ELSE struct_unpack(m.type_name, sl.v)
             ELSE Ok(BytesV(sl.v)))

apply_directive(raw_value, directive) ==
  IF IsNone(raw_value) THEN RetNone("")
  ELSE IF directive = Str_default THEN Ok(raw_value)
  ELSE With(re_fullmatch_type(directive), LAMBDA match :
         IF match.found THEN pandas_astype(raw_value, match.type_name)
         ELSE With(re_fullmatch_byte(directive), LAMBDA bmatch :
                IF bmatch.found THEN apply_byte_directive(raw_value, bmatch)
                ELSE Raise("ValueError: Unknown parsing directive")))

(***************************************************************************)
(* Expression evaluation: Interpreter.eval of asteval, for the arithmetic  *)
(* grammar  + - * / // % **  unary + -  ( )  names  decimal numbers, and   *)
(* the trailers  .name  ( )  asteval evaluates after an atom.              *)
(* eval returns None when the text does not parse or evaluation raises     *)
(* (asteval records the error and prints it; it does not raise).           *)
(***************************************************************************)

FailV == [k |-> "fail"]

IsFinite(v) == v.k = "num" /\ v.den # 0

\* floor(n/d), d # 0
FloorQ(n, d) == IF d > 0 THEN n \div d ELSE (-n) \div (-d)

Sign(n) == IF n > 0 THEN 1 ELSE IF n < 0 THEN -1 ELSE 0

RECURSIVE Repeat(_, _)
Repeat(seq, n) == IF n <= 0 THEN <<>> ELSE seq \o Repeat(seq, n - 1)

\* a op b for two finite numbers
num_binop(op, a, b) ==
  LET np == a.np \/ b.np
      isint == a.isint /\ b.isint
      n1 == a.num * b.den
      n2 == b.num * a.den
      d == a.den * b.den
  IN  CASE op = "+" -> Rat(n1 + n2, d, isint, np)
        [] op = "-" -> Rat(n1 - n2, d, isint, np)
        [] op = "*" -> Rat(a.num * b.num, d, isint, np)
        [] op = "/" ->
             IF b.num # 0 THEN Rat(n1, n2, FALSE, np)
             ELSE IF np
                  THEN [k |-> "num", np |-> TRUE, isint |-> FALSE,
                        num |-> Sign(a.num), den |-> 0]
                  ELSE FailV
        [] op = "//" ->
             IF b.num # 0 THEN Rat(FloorQ(n1, n2), 1, isint, np)
             ELSE IF np THEN Unmodelled ELSE FailV
        [] op = "%" ->
             IF b.num # 0 THEN Rat(n1 - n2 * FloorQ(n1, n2), d, isint, np)
             ELSE IF np THEN Unmodelled ELSE FailV
        [] op = "**" ->
             IF b.den # 1 THEN Unmodelled
             ELSE IF b.num >= 0
                  THEN Rat(IntPow(a.num, b.num), IntPow(a.den, b.num), isint, np)
             ELSE IF np /\ isint THEN FailV
             ELSE IF a.num = 0 THEN (IF np THEN Unmodelled ELSE FailV)
             ELSE Rat(IntPow(a.den, -b.num), IntPow(a.num, -b.num), FALSE, np)
        [] OTHER -> FailV

IsSeqV(v) == v.k \in {"bytes", "list"}
IsPyInt(v) == v.k = "num" /\ v.isint /\ ~v.np

\* a op b as Python evaluates it on two values
py_binop(op, a, b) ==
  IF a.k \in {"fail", "unmodelled"} THEN a
  ELSE IF b.k \in {"fail", "unmodelled"} THEN b
  ELSE IF a.k = "num" /\ b.k = "num"
       THEN IF IsFinite(a) /\ IsFinite(b) THEN num_binop(op, a, b) ELSE Unmodelled
  ELSE IF (a.k = "num" /\ a.np) \/ (b.k = "num" /\ b.np) THEN Unmodelled
  ELSE IF op = "+" /\ IsSeqV(a) /\ a.k = b.k THEN [a EXCEPT !.v = a.v \o b.v]
  ELSE IF op = "*" /\ IsSeqV(a) /\ IsPyInt(b) THEN [a EXCEPT !.v = Repeat(a.v, b.num)]
  ELSE IF op = "*" /\ IsPyInt(a) /\ IsSeqV(b) THEN [b EXCEPT !.v = Repeat(b.v, a.num)]
  ELSE IF op = "%" /\ a.k = "bytes" /\ (\E i \in 1..Len(a.v) : a.v[i] = 37)
       THEN Unmodelled
  ELSE FailV

\* +a and -a
py_unop(op, a) ==
  IF a.k \in {"fail", "unmodelled"} THEN a
  ELSE IF a.k # "num" THEN FailV
  ELSE IF op = "-" THEN [a EXCEPT !.num = -a.num] ELSE a

Str_real == <<"r", "e", "a", "l">>
Str_imag == <<"i", "m", "a", "g">>
Str_conjugate == <<"c", "o", "n", "j", "u", "g", "a", "t", "e">>

\* Interpreter.on_attribute: getattr(value, name); a decoded message gives
\* its field, a number its parts or a bound method
aeval_attribute(value, name) ==
  IF value.k \in {"fail", "unmodelled"} THEN value
  ELSE IF value.k = "msg"
       THEN With(py_getattr(value, name), LAMBDA r : IF r.st = "ok" THEN r.v ELSE FailV)
  ELSE IF value.k = "num" /\ IsFinite(value)
       THEN IF name = Str_real THEN value
            ELSE IF name = Str_imag THEN Rat(0, 1, value.isint, value.np)
            ELSE IF name = Str_conjugate
                 THEN [k |-> "method", self |-> value, name |-> name]
            ELSE Unmodelled
  ELSE Unmodelled

\* Interpreter.on_call with the arguments already evaluated: a bound method
\* of a number is called, the other values of a field are not callable
aeval_call(func, args) ==
  IF func.k \in {"fail", "unmodelled"} THEN func
  ELSE IF \E i \in 1..Len(args) : args[i].k \in {"fail", "unmodelled"}
       THEN args[CHOOSE i \in 1..Len(args) : args[i].k \in {"fail", "unmodelled"}]
  ELSE IF func.k = "method" /\ func.name = Str_conjugate /\ args = <<>>
       THEN func.self
  ELSE IF func.k = "builtin" THEN Unmodelled
  ELSE FailV

\* the characters that are, or begin, an operator of the grammar
OpChars == {"+", "-", "*", "/", "%", "(", ")"}

\* s has c at position i
HasAt(s, i, c) == i <= Len(s) /\ s[i] \in c

Tok(t, s, n) == [t |-> t, s |-> s, n |-> n]

\* Python words that are not names; an expression that holds one is outside
\* the grammar computed here
PyKeywords ==
  { <<"T", "r", "u", "e">>, <<"F", "a", "l", "s", "e">>, <<"N", "o", "n", "e">>,
    <<"a", "n", "d">>, <<"o", "r">>, <<"n", "o", "t">>, <<"i", "n">>, <<"i", "s">>,
    <<"i", "f">>, <<"e", "l", "s", "e">>, <<"f", "o", "r">>, <<"l", "a", "m", "b", "d", "a">> }

\* the tokens of an expression: names, decimal integers, operators; a
\* character of no token of the grammar gives a token "other"
RECURSIVE tokenize(_)
tokenize(s) ==
  IF s = <<>> THEN <<>>
  ELSE LET c == Head(s)
       IN  IF c = " " THEN tokenize(Tail(s))
           ELSE IF c \in IdentStart
                THEN LET n == 1 + RunLen(s, 2, WordChars)
                         w == SubSeq(s, 1, n)
                     IN  <<Tok(IF w \in PyKeywords THEN "other" ELSE "name", w, 0)>>
                           \o tokenize(Tail_from(s, n + 1))
           ELSE IF c \in Digits
                THEN LET n == RunLen(s, 1, Digits)
                         w == SubSeq(s, 1, n)
                     IN  <<Tok(IF HasAt(s, n + 1, {"."}) THEN "other"
                               ELSE IF n > 1 /\ c = "0" /\ ~AllIn(w, {"0"}) THEN "bad"
                               ELSE "int",
                               w, DigitsValue(w))>>
                           \o tokenize(Tail_from(s, n + 1))
           ELSE IF Len(s) >= 2 /\ SubSeq(s, 1, 2) \in {<<"*", "*">>, <<"/", "/">>}
                THEN <<Tok("op", IF c = "*" THEN "**" ELSE "//", 0)>> \o tokenize(Tail_from(s, 3))
           ELSE IF c \in OpChars \/ (c = "." /\ HasAt(s, 2, IdentStart))
                THEN <<Tok("op", c, 0)>> \o tokenize(Tail(s))
           ELSE <<Tok("other", <<c>>, 0)>> \o tokenize(Tail(s))

PRes(ok, v, rest) == [ok |-> ok, v |-> v, rest |-> rest]
PFail == PRes(FALSE, FailV, <<>>)

IsOp(toks, ops) == toks # <<>> /\ Head(toks).t = "op" /\ Head(toks).s \in ops

RECURSIVE parse_expr(_, _)
RECURSIVE parse_expr_tail(_, _, _)
RECURSIVE parse_term(_, _)
RECURSIVE parse_term_tail(_, _, _)
RECURSIVE parse_factor(_, _)
RECURSIVE parse_power(_, _)
RECURSIVE parse_atom(_, _)
RECURSIVE parse_trailers(_, _, _)

\* atom: NAME | NUMBER | "(" expr ")" | "(" ")"
parse_atom(toks, symtable) ==
  IF toks = <<>> THEN PFail
  ELSE LET h == Head(toks)
       IN  IF h.t = "name"
           THEN PRes(TRUE, IF h.s \in DOMAIN symtable THEN symtable[h.s] ELSE FailV, Tail(toks))
           ELSE IF h.t = "int" THEN PRes(TRUE, IntV(h.n), Tail(toks))
           ELSE IF IsOp(toks, {"("})
                THEN IF IsOp(Tail(toks), {")"})
                     THEN PRes(TRUE, EmptyTupleV, Tail(Tail(toks)))
                     ELSE With(parse_expr(Tail(toks), symtable), LAMBDA r :
                            IF r.ok /\ IsOp(r.rest, {")"})
                            THEN PRes(TRUE, r.v, Tail(r.rest))
                            ELSE PFail)
           ELSE PFail

\* trailer*: "." NAME | "(" ")" | "(" expr ")"
parse_trailers(acc, toks, symtable) ==
  IF IsOp(toks, {"."})
  THEN IF Len(toks) >= 2 /\ toks[2].t = "name"
       THEN parse_trailers(aeval_attribute(acc, toks[2].s), Tail(Tail(toks)), symtable)
       ELSE PFail
  ELSE IF IsOp(toks, {"("})
       THEN IF IsOp(Tail(toks), {")"})
            THEN parse_trailers(aeval_call(acc, <<>>), Tail(Tail(toks)), symtable)
            ELSE With(parse_expr(Tail(toks), symtable), LAMBDA r :
                   IF r.ok /\ IsOp(r.rest, {")"})
                   THEN parse_trailers(aeval_call(acc, <<r.v>>), Tail(r.rest), symtable)
                   ELSE PFail)
  ELSE PRes(TRUE, acc, toks)

\* power: atom trailer* ["**" factor]
parse_power(toks, symtable) ==
  With(With(parse_atom(toks, symtable), LAMBDA t :
         IF t.ok THEN parse_trailers(t.v, t.rest, symtable) ELSE PFail), LAMBDA a :
    IF a.ok /\ IsOp(a.rest, {"**"})
    THEN With(parse_factor(Tail(a.rest), symtable), LAMBDA e :
           IF e.ok THEN PRes(TRUE, py_binop("**", a.v, e.v), e.rest) ELSE PFail)
    ELSE a)

\* factor: ("+" | "-") factor | power
parse_factor(toks, symtable) ==
  IF IsOp(toks, {"+", "-"})
  THEN With(parse_factor(Tail(toks), symtable), LAMBDA f :
         IF f.ok THEN PRes(TRUE, py_unop(Head(toks).s, f.v), f.rest) ELSE PFail)
  ELSE parse_power(toks, symtable)

parse_term_tail(acc, toks, symtable) ==
  IF IsOp(toks, {"*", "/", "//", "%"})
  THEN With(parse_factor(Tail(toks), symtable), LAMBDA f :
         IF f.ok
         THEN parse_term_tail(py_binop(Head(toks).s, acc, f.v), f.rest, symtable)
         ELSE PFail)
  ELSE PRes(TRUE, acc, toks)

\* term: factor (("*" | "/" | "//" | "%") factor)*
parse_term(toks, symtable) ==
  With(parse_factor(toks, symtable), LAMBDA f :
    IF f.ok THEN parse_term_tail(f.v, f.rest, symtable) ELSE PFail)

parse_expr_tail(acc, toks, symtable) ==
  IF IsOp(toks, {"+", "-"})
  THEN With(parse_term(Tail(toks), symtable), LAMBDA t :
         IF t.ok
         THEN parse_expr_tail(py_binop(Head(toks).s, acc, t.v), t.rest, symtable)
         ELSE PFail)
  ELSE PRes(TRUE, acc, toks)

\* expr: term (("+" | "-") term)*
parse_expr(toks, symtable) ==
  With(parse_term(toks, symtable), LAMBDA t :
    IF t.ok THEN parse_expr_tail(t.v, t.rest, symtable) ELSE PFail)

\* Interpreter.eval(expression) with the given symbol table: the value, or
\* None for an empty text, a text that does not parse (a text that begins
\* with a blank is an unexpected indent) and an evaluation that raises
aeval_eval(expression, symtable) ==
  With(tokenize(expression), LAMBDA toks :
    IF toks = <<>> THEN NoneV
    ELSE IF \E i \in 1..Len(toks) : toks[i].t = "other" THEN Unmodelled
    ELSE IF Head(expression) = " " THEN NoneV
    ELSE With(parse_expr(toks, symtable), LAMBDA r :
           IF ~r.ok \/ r.rest # <<>> \/ r.v.k = "fail" THEN NoneV ELSE r.v))

(***************************************************************************)
(* TaskProcessor                                                           *)
(***************************************************************************)

Range(f) == {f[i] : i \in DOMAIN f}

\* [name.strip() for name in field_names.split(',')]
parse_field_names(text) ==
  LET parts == split(text, ",")
  IN  [i \in 1..Len(parts) |-> strip(parts[i])]

\* TaskProcessor._extract_directives: a directive for each configured field
\* that is among the names found in the parse string
extract_directives(field_names, parse_string) ==
  LET potential_fields == re_findall_names(parse_string)
  IN  [field \in {f \in Range(field_names) : f \in potential_fields} |->
         LET match == re_search_directive(parse_string, field)
         IN  IF match.found THEN match.group ELSE Str_default]

\* TaskProcessor.__init__
TaskProcessor(analysis_task) ==
  LET names == parse_field_names(analysis_task.field_names)
  IN  [task_id |-> analysis_task.id,
       topic_name |-> analysis_task.topic_name,
       field_names |-> names,
       parse_string |-> analysis_task.parse_string,
       expression |-> re_sub_parens(analysis_task.parse_string),
       directives |-> extract_directives(names, analysis_task.parse_string)]

\* field.replace('.', '_')
safe_name(field) == replace(field, <<".">>, <<"_">>)

\* the first loop of process_message from the i-th field on: the symbol
\* table when every field was read and parsed, else the early return
RECURSIVE parse_fields(_, _, _, _)
parse_fields(self, ros_msg, i, symtable) ==
  IF i > Len(self.field_names) THEN [st |-> "ok", symtable |-> symtable, exc |-> "", warn |-> ""]
  ELSE LET field == self.field_names[i]
           stop(st, exc, warn) == [st |-> st, symtable |-> symtable, exc |-> exc, warn |-> warn]
       IN  With(get_field_value(ros_msg, field), LAMBDA raw :
             IF raw.st = "raise" THEN stop("raise", raw.exc, "")
             ELSE IF IsNone(raw.v) THEN stop("none", "", raw.warn)
             ELSE IF field \notin DOMAIN self.directives
                  THEN stop("none", "", "Directive not found")
             ELSE With(apply_directive(raw.v, self.directives[field]), LAMBDA parsed :
                    IF parsed.st = "raise" THEN stop("raise", parsed.exc, "")
                    ELSE IF IsNone(parsed.v) THEN stop("none", "", parsed.warn)
                    ELSE parse_fields(self, ros_msg, i + 1,
                           [n \in DOMAIN symtable \cup {safe_name(field)} |->
                              IF n = safe_name(field) THEN parsed.v ELSE symtable[n]])))

\* the second loop: the field names of the expression made identifiers
RECURSIVE safe_expression(_, _, _)
safe_expression(expression, field_names, i) ==
  IF i > Len(field_names) THEN expression
  ELSE safe_expression(replace(expression, field_names[i], safe_name(field_names[i])),
                       field_names, i + 1)

\* the raw values of a row, by field name; every field was read when a row
\* is made
raw_values(self, ros_msg) ==
  [field \in Range(self.field_names) |-> get_field_value(ros_msg, field).v]

EmptySymtable == [n \in {} |-> NoneV]

NoRow == [mcap_timestamp_ns |-> -1, raw |-> EmptySymtable, parsed_value |-> NoneV]

\* some of the names asteval binds in a new Interpreter
BuiltinNames ==
  { <<"a", "b", "s">>, <<"i", "n", "t">>, <<"l", "e", "n">>, <<"m", "a", "x">>,
    <<"m", "i", "n">>, <<"p", "i">> }

\* self.aeval = Interpreter(): the interpreter with the symbol table it
\* starts with, which holds asteval's built-in functions and constants
Interpreter == [symtable |-> [n \in BuiltinNames |-> [k |-> "builtin"]]]

\* self.aeval.symtable = parsed_values_for_eval
assign_symtable(aeval, parsed_values_for_eval) ==
  [aeval EXCEPT !.symtable = parsed_values_for_eval]

\* an evaluation that reads the symbol table as it was before the assignment
symtable_at_eval_stale(before, assigned) == before.symtable

\* the symbol table self.aeval.eval reads: the interpreter's own, after the
\* assignment of the line before
symtable_at_eval(before, assigned) == assigned.symtable

\* TaskProcessor.process_message on a processor whose interpreter is aeval:
\* the result and the interpreter the call leaves. In the result st is "row"
\* with the row, "none" (the message is skipped, warn is the warning printed)
\* or "raise"
process_message_call(self, aeval, mcap_timestamp_ns, ros_msg) ==
  With(parse_fields(self, ros_msg, 1, EmptySymtable), LAMBDA fields :
    IF fields.st # "ok"
    THEN [aeval |-> aeval,
          result |-> [st |-> fields.st, row |-> NoRow, exc |-> fields.exc,
                      warn |-> fields.warn]]
    ELSE With(assign_symtable(aeval, fields.symtable), LAMBDA assigned :
           [aeval |-> assigned,
            result |->
              [st |-> "row", exc |-> "", warn |-> "",
               row |-> [mcap_timestamp_ns |-> mcap_timestamp_ns,
                        raw |-> raw_values(self, ros_msg),
                        parsed_value |->
                          aeval_eval(safe_expression(self.expression, self.field_names, 1),
                                     symtable_at_eval(aeval, assigned))]]]))

\* TaskProcessor.process_message, whose result does not depend on the
\* interpreter the processor is left with by earlier calls
process_message(self, mcap_timestamp_ns, ros_msg) ==
  process_message_call(self, Interpreter, mcap_timestamp_ns, ros_msg).result

(***************************************************************************)
(* natsorted: the file names in natural order                              *)
(***************************************************************************)

\* the key natsort compares: the name cut into text and number chunks, text
\* first (empty when the name begins with a digit), numbers by value
RECURSIVE natsort_key(_, _)
natsort_key(s, wantText) ==
  IF s = <<>> THEN <<>>
  ELSE IF wantText
       THEN LET n == RunLen(s, 1, Range(Ascii) \ Digits)
            IN  <<[text |-> SubSeq(s, 1, n), num |-> 0]>>
                  \o natsort_key(Tail_from(s, n + 1), FALSE)
       ELSE LET n == RunLen(s, 1, Digits)
            IN  <<[text |-> <<>>, num |-> DigitsValue(SubSeq(s, 1, n))]>>
                  \o natsort_key(Tail_from(s, n + 1), TRUE)

\* a < b for two texts, by code points
RECURSIVE TextLess(_, _)
TextLess(a, b) ==
  IF b = <<>> THEN FALSE
  ELSE IF a = <<>> THEN TRUE
  ELSE IF Head(a) # Head(b) THEN Ord(Head(a)) < Ord(Head(b))
  ELSE TextLess(Tail(a), Tail(b))

\* ka < kb for two keys, chunk by chunk, as Python compares tuples
RECURSIVE KeyLess(_, _)
KeyLess(ka, kb) ==
  IF kb = <<>> THEN FALSE
  ELSE IF ka = <<>> THEN TRUE
  ELSE IF Head(ka) = Head(kb) THEN KeyLess(Tail(ka), Tail(kb))
  ELSE IF Head(ka).text # Head(kb).text THEN TextLess(Head(ka).text, Head(kb).text)
  ELSE Head(ka).num < Head(kb).num

NatLess(a, b) == KeyLess(natsort_key(a, TRUE), natsort_key(b, TRUE))

\* x put into the sorted sequence after the items that are not greater
RECURSIVE insert_sorted(_, _)
insert_sorted(sorted, x) ==
  IF sorted = <<>> THEN <<x>>
  ELSE IF NatLess(x, Head(sorted)) THEN <<x>> \o sorted
  ELSE <<Head(sorted)>> \o insert_sorted(Tail(sorted), x)

RECURSIVE sort_paths(_, _)
sort_paths(done, paths) ==
  IF paths = <<>> THEN done
  ELSE sort_paths(insert_sorted(done, Head(paths)), Tail(paths))

\* sorted(mcap_paths): the names compared character by character
RECURSIVE insert_plain(_, _)
insert_plain(sorted, x) ==
  IF sorted = <<>> THEN <<x>>
  ELSE IF TextLess(x, Head(sorted)) THEN <<x>> \o sorted
  ELSE <<Head(sorted)>> \o insert_plain(Tail(sorted), x)

RECURSIVE sort_plain(_, _)
sort_plain(done, paths) ==
  IF paths = <<>> THEN done
  ELSE sort_plain(insert_plain(done, Head(paths)), Tail(paths))

sorted_plain(mcap_paths) == sort_plain(<<>>, mcap_paths)

\* natsorted(mcap_paths): a stable sort by the natural key
natsorted(mcap_paths) == sort_paths(<<>>, mcap_paths)

(***************************************************************************)
(* float64 arithmetic of the analyzers. A float is the dyadic number       *)
(* n / 2^s in lowest terms; every operation is the exact result rounded to *)
(* the nearest float, ties to even. The significand has MantissaBits bits  *)
(* where float64 has 53, so that the integers that are no floats begin at  *)
(* 2^MantissaBits and fit the integers of the model.                       *)
(***************************************************************************)

MantissaBits == 25

Pow2(k) == 2 ^ k

\* the number of bits of n >= 0
RECURSIVE BitLen(_)
BitLen(n) == IF n = 0 THEN 0 ELSE 1 + BitLen(n \div 2)

\* n / 2^s in lowest terms
RECURSIVE Dyadic(_, _)
Dyadic(n, s) ==
  IF n = 0 THEN [n |-> 0, s |-> 0]
  ELSE IF s > 0 /\ n % 2 = 0 THEN Dyadic(n \div 2, s - 1)
  ELSE IF s < 0 THEN Dyadic(n * 2, s + 1)
  ELSE [n |-> n, s |-> s]

\* n >= 0 without its k low bits, rounded to nearest, ties to even
RoundEven(n, k) ==
  LET q == n \div Pow2(k)
      r == n % Pow2(k)
      half == Pow2(k - 1)
  IN  IF r > half \/ (r = half /\ q % 2 = 1) THEN q + 1 ELSE q

\* the float nearest to n / 2^s
f64_round(n, s) ==
  LET k == BitLen(Abs(n)) - MantissaBits
      sg == IF n < 0 THEN -1 ELSE 1
  IN  IF k <= 0 THEN Dyadic(n, s)
      ELSE Dyadic(sg * RoundEven(Abs(n), k), s - k)

\* float(i) for an integer i
f64_from_int(i) == f64_round(i, 0)

f64_is_zero(a) == a.n = 0

Max(a, b) == IF a > b THEN a ELSE b

\* a + b and a - b
f64_add(a, b) ==
  LET s == Max(a.s, b.s)
  IN  f64_round(a.n * Pow2(s - a.s) + b.n * Pow2(s - b.s), s)

f64_neg(a) == [n |-> -a.n, s |-> a.s]

f64_sub(a, b) == f64_add(a, f64_neg(b))

\* the binary exponent of a # 0: 2^(e-1) <= |a| < 2^e
f64_exponent(a) == BitLen(Abs(a.n)) - a.s

\* a < b for a, b >= 0
f64_less_abs(a, b) ==
  IF f64_is_zero(b) THEN FALSE
  ELSE IF f64_is_zero(a) THEN TRUE
  ELSE IF f64_exponent(a) # f64_exponent(b) THEN f64_exponent(a) < f64_exponent(b)
  ELSE LET s == Max(a.s, b.s)
       IN  Abs(a.n) * Pow2(s - a.s) < Abs(b.n) * Pow2(s - b.s)

\* a < b
f64_less(a, b) ==
  IF a.n < 0 /\ b.n >= 0 THEN TRUE
  ELSE IF a.n >= 0 /\ b.n < 0 THEN FALSE
  ELSE IF a.n < 0 THEN f64_less_abs(f64_neg(b), f64_neg(a))
  ELSE f64_less_abs(a, b)

\* the bits of num / den after the binary point, for 0 <= num < den, until the
\* quotient q has MantissaBits + 2 bits or the division ends: the quotient,
\* the bits taken and the remainder
RECURSIVE LongDivision(_, _, _, _)
LongDivision(q, bits, num, den) ==
  IF num = 0 \/ BitLen(q) >= MantissaBits + 2
  THEN [q |-> q, bits |-> bits, rem |-> num]
  ELSE LongDivision(2 * q + (IF 2 * num >= den THEN 1 ELSE 0), bits + 1,
                    IF 2 * num >= den THEN 2 * num - den ELSE 2 * num, den)

\* a / b for b # 0: the quotient of the numerators by long division, with a
\* last bit that says whether anything is left, then rounded
f64_div(a, b) ==
  LET sg == IF (a.n < 0) # (b.n < 0) THEN -1 ELSE 1
      num == Abs(a.n)
      den == Abs(b.n)
  IN  With(LongDivision(num \div den, 0, num % den, den), LAMBDA d :
        f64_round(sg * (2 * d.q + (IF d.rem = 0 THEN 0 ELSE 1)),
                  d.bits + 1 + a.s - b.s))

\* fmod(a, b): the remainder with the sign of a, which is exact
f64_fmod(a, b) ==
  LET s == Max(a.s, b.s)
      x == a.n * Pow2(s - a.s)
      y == Abs(b.n) * Pow2(s - b.s)
      r == Abs(x) % y
  IN  Dyadic(IF x < 0 THEN -r ELSE r, s)

\* a % b of NumPy for b # 0: fmod, moved by b when its sign is not the sign
\* of b
f64_mod(a, b) ==
  With(f64_fmod(a, b), LAMBDA mod :
    IF ~f64_is_zero(mod) /\ ((b.n < 0) # (mod.n < 0)) THEN f64_add(mod, b) ELSE mod)

(***************************************************************************)
(* TimestampAnalyzer (analysis/timestamp_analyzer.py)                      *)
(***************************************************************************)

\* the 1e9 of the source: nanoseconds in a second
NsPerSecond == 1000000000

Str_freq == <<"f", "r", "e", "q", ":">>

DigitsAndDot == Digits \cup {"."}

\* re.search(r'freq:([\d\.]+)', config_str): the group of the first match,
\* <<>> when there is none
RECURSIVE re_search_freq(_, _)
re_search_freq(config_str, i) ==
  IF i > Len(config_str) THEN <<>>
  ELSE IF /\ StartsWithAt(config_str, Str_freq, i)
          /\ RunLen(config_str, i + Len(Str_freq), DigitsAndDot) > 0
       THEN SubSeq(config_str, i + Len(Str_freq),
                   i + Len(Str_freq) + RunLen(config_str, i + Len(Str_freq), DigitsAndDot) - 1)
       ELSE re_search_freq(config_str, i + 1)

\* float(text) for a text of digits and dots: digits with at most one dot
py_float(text) ==
  LET ds == SelectSeq(text, LAMBDA c : c \in Digits)
      dot == IndexFrom(text, ".", 1)
  IN  IF ds = <<>> \/ Len(text) - Len(ds) > 1 THEN Raise("ValueError")
      ELSE IF dot = 0 THEN Ok(f64_from_int(DigitsValue(ds)))
      ELSE Ok(f64_div(f64_from_int(DigitsValue(ds)),
                      f64_from_int(IntPow(10, Len(text) - dot))))

\* TimestampAnalyzer._parse_freq
parse_freq(config_str) ==
  IF re_search_freq(config_str, 1) = <<>>
  THEN Raise("ValueError: Frequency not specified in config")
  ELSE py_float(re_search_freq(config_str, 1))

\* TimestampAnalyzer.__init__: the analyzer, or the error raised
TimestampAnalyzer(analysis_type_config) ==
  With(parse_freq(analysis_type_config), LAMBDA freq :
    IF freq.st = "raise" THEN freq
    ELSE IF ~f64_less(f64_from_int(0), freq.v)
         THEN Raise("ValueError: Frequency must be a positive value.")
    ELSE Ok([freq_hz |-> freq.v,
             expected_period_ns |-> f64_div(f64_from_int(NsPerSecond), freq.v)]))

\* df['parsed_value'].astype(np.int64): a column with a None in it cannot be
\* cast; a number loses its fraction
RECURSIVE astype_int64(_)
astype_int64(column) ==
  IF column = <<>> THEN Ok(<<>>)
  ELSE IF ~IsNum(Head(column)) \/ Head(column).den = 0
       THEN Raise("astype(np.int64): cannot convert the column")
       ELSE With(astype_int64(Tail(column)), LAMBDA rest :
              IF rest.st = "raise" THEN rest
              ELSE Ok(<<Trunc(Head(column).num, Head(column).den)>> \o rest.v))

\* timestamps_ns.diff().dropna(): the consecutive differences, as floats
series_diff(timestamps_ns) ==
  [i \in 1..(Len(timestamps_ns) - 1) |->
     f64_sub(f64_from_int(timestamps_ns[i + 1]), f64_from_int(timestamps_ns[i]))]

\* the greatest and the least of a series that is not empty
RECURSIVE series_max(_)
series_max(series) ==
  IF Len(series) = 1 THEN series[1]
  ELSE With(series_max(Tail(series)), LAMBDA m :
         IF f64_less(Head(series), m) THEN m ELSE Head(series))

RECURSIVE series_min(_)
series_min(series) ==
  IF Len(series) = 1 THEN series[1]
  ELSE With(series_min(Tail(series)), LAMBDA m :
         IF f64_less(m, Head(series)) THEN m ELSE Head(series))

\* TimestampAnalyzer._calculate_stats: NaN for an empty series; of the four
\* statistics the model keeps the two that are elements of the series
calculate_stats(series) ==
  IF series = <<>> THEN [nan |-> TRUE, max |-> f64_from_int(0), min |-> f64_from_int(0)]
  ELSE [nan |-> FALSE, max |-> series_max(series), min |-> series_min(series)]

\* ((t - t_start + T/2) % T) - T/2 for one timestamp
deviation(t, t_start_ns, expected_period_ns) ==
  With(f64_div(expected_period_ns, f64_from_int(2)), LAMBDA half :
    f64_sub(f64_mod(f64_add(f64_from_int(t - t_start_ns), half), expected_period_ns),
            half))

EmptySummary == [empty |-> TRUE]

\* TimestampAnalyzer.analyze on the parsed_value column of df: the summary
\* with the series the statistics are taken of, or the error raised
analyze(self, df) ==
  IF Len(df) < 2 THEN Ok(EmptySummary)
  ELSE With(astype_int64(df), LAMBDA cast :
    IF cast.st = "raise" THEN cast
    ELSE LET timestamps_ns == cast.v
             period_ns == series_diff(timestamps_ns)
             period_s == [i \in DOMAIN period_ns |->
                            f64_div(period_ns[i], f64_from_int(NsPerSecond))]
             positive == SelectSeq(period_ns, LAMBDA p : f64_less(f64_from_int(0), p))
             frequency_hz == [i \in DOMAIN positive |->
                                f64_div(f64_from_int(NsPerSecond), positive[i])]
             deviation_ns == [i \in DOMAIN timestamps_ns |->
                                deviation(timestamps_ns[i], timestamps_ns[1],
                                          self.expected_period_ns)]
             deviation_s == [i \in DOMAIN deviation_ns |->
                               f64_div(deviation_ns[i], f64_from_int(NsPerSecond))]
         IN  Ok([empty |-> FALSE,
                 specified_frequency_hz |-> self.freq_hz,
                 expected_period_s |->
                   f64_div(self.expected_period_ns, f64_from_int(NsPerSecond)),
                 period_ns |-> period_ns,
                 frequency_hz |-> frequency_hz,
                 deviation_ns |-> deviation_ns,
                 period_s |-> calculate_stats(period_s),
                 frequency_stats |-> calculate_stats(frequency_hz),
                 jitter_drift_s |-> calculate_stats(deviation_s)]))

(***************************************************************************)
(* Inputs: the analysis tasks of the configuration and the MCAP files      *)
(***************************************************************************)

\* the most tasks in a configuration, and the most paths given
MaxTasks == 2
MaxFiles == 2

Name_a == <<"a">>
Name_b == <<"b">>
Name_c == <<"c">>
Name_h == <<"h">>
Name_n == <<"n">>
Name_data == <<"d", "a", "t", "a">>

Task(id, topic_name, field_names, parse_string) ==
  [id |-> id, topic_name |-> topic_name, field_names |-> field_names,
   parse_string |-> parse_string]

\* sum:    a, b       a + b
\* ratio:  a, h.n     a / h.n
\* bad:    a          a(foo)
\* word:   data       data(byte:0-4,type:uint32)
\* scaled: a, b, c    (a + b) * c(type:int32)
\* elem:   data[3]    data[3]
\* unsup:  data       data(byte:0-4,type:foo)
\* pick:   a, b       b
TaskUniverse ==
  { Task("sum", "/x", <<"a", ",", " ", "b">>, <<"a", " ", "+", " ", "b">>),
    Task("ratio", "/x", <<"a", ",", " ", "h", ".", "n">>,
         <<"a", " ", "/", " ", "h", ".", "n">>),
    Task("bad", "/x", Name_a, <<"a", "(", "f", "o", "o", ")">>),
    Task("word", "/x", Name_data,
         Name_data \o <<"(">> \o Str_byte \o <<"0", "-", "4">> \o Str_comma_type
           \o Str_uint \o <<"3", "2", ")">>),
    Task("scaled", "/x", <<"a", ",", " ", "b", ",", " ", "c">>,
         <<"(", "a", " ", "+", " ", "b", ")", " ", "*", " ", "c", "(">> \o Str_type
           \o Str_int \o <<"3", "2", ")">>),
    Task("elem", "/y", Name_data \o <<"[", "3", "]">>, Name_data \o <<"[", "3", "]">>),
    Task("unsup", "/x", Name_data,
         Name_data \o <<"(">> \o Str_byte \o <<"0", "-", "4">> \o Str_comma_type
           \o <<"f", "o", "o", ")">>),
    Task("pick", "/x", <<"a", ",", " ", "b">>, Name_b) }

\* the sequences of 1..n distinct items of S
DistinctSeqs(S, n) ==
  UNION {{q \in [1..k -> S] : \A i, j \in 1..k : i # j => q[i] # q[j]} : k \in 1..n}

Header(n) == MsgV(Name_n :> IntV(n))

\* decoded messages of topic /x and of topic /y
Msg_full ==
  MsgV(Name_a :> IntV(6) @@ Name_b :> IntV(3) @@ Name_c :> IntV(2)
       @@ Name_data :> BytesV(<<1, 0, 0, 0>>) @@ Name_h :> Header(3))
Msg_zero ==
  MsgV(Name_a :> IntV(6) @@ Name_b :> IntV(3) @@ Name_c :> IntV(2)
       @@ Name_data :> BytesV(<<1, 2, 3>>) @@ Name_h :> Header(0))
Msg_null ==
  MsgV(Name_a :> NoneV @@ Name_b :> IntV(1) @@ Name_c :> IntV(2)
       @@ Name_data :> BytesV(<<5, 0, 0, 0>>) @@ Name_h :> Header(2))
Msg_partial ==
  MsgV(Name_a :> IntV(4) @@ Name_c :> IntV(2)
       @@ Name_data :> BytesV(<<7, 0, 0, 0>>) @@ Name_h :> MsgV(Name_c :> IntV(1)))
Msg_list == MsgV(Name_data :> ListV(<<IntV(10), IntV(20), IntV(30), IntV(40)>>))
Msg_short == MsgV(Name_data :> ListV(<<IntV(10), IntV(20)>>))

Record(topic, log_time, ros_msg) ==
  [topic |-> topic, log_time |-> log_time, ros_msg |-> ros_msg]

File_1 == <<"f", "1">>
File_2 == <<"f", "2">>
File_10 == <<"f", "1", "0">>

FileNames == {File_1, File_2, File_10}

\* the records of each file, in log order
Disk(path) ==
  CASE path = File_1 -> <<Record("/x", 11, Msg_full), Record("/x", 12, Msg_zero)>>
    [] path = File_2 -> <<Record("/x", 21, Msg_partial), Record("/x", 22, Msg_full)>>
    [] path = File_10 ->
         <<Record("/y", 101, Msg_short), Record("/y", 102, Msg_list),
           Record("/x", 103, Msg_null)>>

(***************************************************************************)
(* McapReader                                                              *)
(***************************************************************************)

VARIABLES
  analysis_tasks,      \* the configured tasks, in configuration order
  mcap_paths,          \* the paths given to process_files
  pc,                  \* "new", "ready", "loop", "reading", "done"
  task_processors,     \* McapReader.task_processors
  topic_to_processors, \* topic -> the indices of its processors, in order
  task_results,        \* task id -> the rows accumulated
  pending,             \* the sorted files not yet opened
  cur_file,            \* the open file, <<>> when none is
  cur_pos,             \* the records of the open file already read
  cur_fail,            \* the records read before reading the open file fails
  stderr_files,        \* the files whose processing error was printed
  opened,              \* the files process_files has tried to open, in order
  last,                \* what the processors did with the last message
  ref_results          \* the rows of a run of the well-configured tasks alone

\* the variables of McapReader
reader_vars ==
  <<analysis_tasks, mcap_paths, pc, task_processors, topic_to_processors,
    task_results, pending, cur_file, cur_pos, cur_fail, stderr_files, opened,
    last, ref_results>>

VARIABLES
  analysis_type_config, \* the analysis type text a TimestampAnalyzer is made of
  df,                   \* the parsed_value column of the DataFrame analyzed
  ta_pc,                \* "idle", "new", "ready", "failed", "done"
  analyzer,             \* the TimestampAnalyzer constructed
  summary               \* what analyze returned or raised

\* the variables of TimestampAnalyzer
ta_vars == <<analysis_type_config, df, ta_pc, analyzer, summary>>

VARIABLES
  processor_task,       \* the analysis task a TaskProcessor is made of
  task_processor,       \* the TaskProcessor constructed
  aeval,                \* task_processor.aeval, the interpreter of the processor
  calls,                \* the calls of process_message so far, with their results
  tp_pc                 \* "idle", "new", "ready"

\* the variables of a TaskProcessor used on its own
tp_vars == <<processor_task, task_processor, aeval, calls, tp_pc>>

VARIABLES
  byte_start,           \* start of the byte-range directive applied
  byte_length,          \* its length
  byte_type,            \* its type_name, <<>> when it has none
  raw_field,            \* the raw value the directive is applied to
  coerced,              \* what _apply_directive returned or raised
  vc_pc                 \* "idle", "new", "done"

\* the variables of _apply_directive used on its own
vc_vars == <<byte_start, byte_length, byte_type, raw_field, coerced, vc_pc>>

vars == <<reader_vars, ta_vars, tp_vars, vc_vars>>

\* _apply_directive is not used on its own
CoercerIdle ==
  /\ byte_start = 0
  /\ byte_length = 0
  /\ byte_type = <<>>
  /\ raw_field = <<>>
  /\ coerced = <<>>
  /\ vc_pc = "idle"

\* no TaskProcessor is used on its own
ProcessorIdle ==
  /\ processor_task = <<>>
  /\ task_processor = <<>>
  /\ aeval = <<>>
  /\ calls = <<>>
  /\ tp_pc = "idle"

\* no TimestampAnalyzer is at work
TimestampIdle ==
  /\ analysis_type_config = <<>>
  /\ df = <<>>
  /\ ta_pc = "idle"
  /\ analyzer = <<>>
  /\ summary = <<>>

NoMessage == [file |-> <<>>, pos |-> 0, topic |-> "", outcomes |-> <<>>]

\* reading never fails
NoFailure == -1

\* McapReader._map_topics_to_processors
map_topics_to_processors(processors) ==
  [topic \in {processors[i].topic_name : i \in 1..Len(processors)} |->
     SelectSeq([i \in 1..Len(processors) |-> i],
               LAMBDA i : processors[i].topic_name = topic)]

\* self.all_topics
all_topics == DOMAIN topic_to_processors

\* the loop over the processors of one message, from the i-th on: the rows
\* appended, what each processor called returned, and whether one raised
RECURSIVE dispatch(_, _, _, _, _, _)
dispatch(processors, ids, i, record, results, outcomes) ==
  IF i > Len(ids) THEN [results |-> results, outcomes |-> outcomes, raised |-> FALSE]
  ELSE LET processor == processors[ids[i]]
       IN  With(process_message(processor, record.log_time, record.ros_msg), LAMBDA r :
             LET out == Append(outcomes, [task_id |-> processor.task_id, st |-> r.st,
                                          exc |-> r.exc, warn |-> r.warn])
             IN  IF r.st = "raise"
                 THEN [results |-> results, outcomes |-> out, raised |-> TRUE]
                 ELSE dispatch(processors, ids, i + 1, record,
                               IF r.st = "row"
                               THEN [results EXCEPT ![processor.task_id] = Append(@, r.row)]
                               ELSE results,
                               out))

\* the records of one file a reader hands to its processors before the file
\* ends, reading fails at fail_at, or a processor raises: the rows appended
RECURSIVE read_file(_, _, _, _, _, _)
read_file(processors, mapping, records, pos, fail_at, results) ==
  IF pos = Len(records) \/ pos = fail_at THEN results
  ELSE LET record == records[pos + 1]
       IN  IF record.topic \notin DOMAIN mapping
           THEN read_file(processors, mapping, records, pos + 1, fail_at, results)
           ELSE With(dispatch(processors, mapping[record.topic], 1, record, results, <<>>),
                     LAMBDA d :
                       IF d.raised THEN d.results
                       ELSE read_file(processors, mapping, records, pos + 1, fail_at,
                                      d.results))

\* does the text d name a directive _apply_directive can apply
DirectiveKnown(d) ==
  \/ d = Str_default
  \/ re_fullmatch_type(d).found /\ IsPandasDtype(re_fullmatch_type(d).type_name)
  \/ /\ ~re_fullmatch_type(d).found
     /\ re_fullmatch_byte(d).found
     /\ \/ re_fullmatch_byte(d).type_name = <<>>
        \/ InFormatMap(re_fullmatch_byte(d).type_name)

\* a processor none of whose directives is a configuration error
WellConfigured(processor) ==
  \A f \in DOMAIN processor.directives : DirectiveKnown(processor.directives[f])

\* the processors of a configuration without its faulty tasks
well_configured_processors ==
  SelectSeq(task_processors, WellConfigured)

TaskIds == {analysis_tasks[i].id : i \in 1..Len(analysis_tasks)}

\* the reading failures a file may have: none, or after k of its records
FailPoints(path) == {NoFailure} \cup (0..(Len(Disk(path)) - 1))

Init ==
  /\ analysis_tasks \in DistinctSeqs(TaskUniverse, MaxTasks)
  /\ mcap_paths \in DistinctSeqs(FileNames, MaxFiles)
  /\ pc = "new"
  /\ task_processors = <<>>
  /\ topic_to_processors = <<>>
  /\ task_results = <<>>
  /\ pending = <<>>
  /\ cur_file = <<>>
  /\ cur_pos = 0
  /\ cur_fail = NoFailure
  /\ stderr_files = {}
  /\ opened = <<>>
  /\ last = NoMessage
  /\ ref_results = <<>>
  /\ TimestampIdle
  /\ ProcessorIdle
  /\ CoercerIdle

\* McapReader.__init__
Construct ==
  /\ pc = "new"
  /\ pc' = "ready"
  /\ task_processors' = [i \in 1..Len(analysis_tasks) |-> TaskProcessor(analysis_tasks[i])]
  /\ topic_to_processors' = map_topics_to_processors(task_processors')
  /\ UNCHANGED <<analysis_tasks, mcap_paths, task_results, pending, cur_file, cur_pos,
                 cur_fail, stderr_files, opened, last, ref_results>>
  /\ UNCHANGED <<ta_vars, tp_vars, vc_vars>>

\* process_files up to its loop: the empty results and the sorted paths
StartProcessFiles ==
  /\ pc = "ready"
  /\ pc' = "loop"
  /\ task_results' = [id \in TaskIds |-> <<>>]
  /\ ref_results' = [id \in TaskIds |-> <<>>]
  /\ pending' = natsorted(mcap_paths)
  /\ UNCHANGED <<analysis_tasks, mcap_paths, task_processors, topic_to_processors,
                 cur_file, cur_pos, cur_fail, stderr_files, opened, last>>
  /\ UNCHANGED <<ta_vars, tp_vars, vc_vars>>

\* the next file is opened; how far it can be read is the file's own
OpenFile ==
  /\ pc = "loop"
  /\ pending # <<>>
  /\ \E fp \in FailPoints(Head(pending)) :
       /\ cur_fail' = fp
       /\ ref_results' =
            read_file(well_configured_processors,
                      map_topics_to_processors(well_configured_processors),
                      Disk(Head(pending)), 0, fp, ref_results)
  /\ pc' = "reading"
  /\ cur_file' = Head(pending)
  /\ cur_pos' = 0
  /\ pending' = Tail(pending)
  /\ opened' = Append(opened, Head(pending))
  /\ UNCHANGED <<analysis_tasks, mcap_paths, task_processors, topic_to_processors,
                 task_results, stderr_files, last>>
  /\ UNCHANGED <<ta_vars, tp_vars, vc_vars>>

\* open() raises: the except clause prints the error and the loop goes on
OpenFails ==
  /\ pc = "loop"
  /\ pending # <<>>
  /\ stderr_files' = stderr_files \cup {Head(pending)}
  /\ pending' = Tail(pending)
  /\ opened' = Append(opened, Head(pending))
  /\ UNCHANGED <<analysis_tasks, mcap_paths, pc, task_processors, topic_to_processors,
                 task_results, cur_file, cur_pos, cur_fail, last, ref_results>>
  /\ UNCHANGED <<ta_vars, tp_vars, vc_vars>>

CanRead ==
  /\ pc = "reading"
  /\ cur_pos < Len(Disk(cur_file))
  /\ cur_pos # cur_fail

\* a record of a topic no task names is not yielded by the reader
SkipRecord ==
  /\ CanRead
  /\ Disk(cur_file)[cur_pos + 1].topic \notin all_topics
  /\ cur_pos' = cur_pos + 1
  /\ UNCHANGED <<analysis_tasks, mcap_paths, pc, task_processors, topic_to_processors,
                 task_results, pending, cur_file, cur_fail, stderr_files, opened, last,
                 ref_results>>
  /\ UNCHANGED <<ta_vars, tp_vars, vc_vars>>

\* one message of the inner loop, offered to the processors of its topic; a
\* processor that raises ends the file in the except clause
DispatchMessage ==
  /\ CanRead
  /\ LET record == Disk(cur_file)[cur_pos + 1]
     IN  /\ record.topic \in all_topics
         /\ \E d \in {dispatch(task_processors, topic_to_processors[record.topic], 1,
                                record, task_results, <<>>)} :
                /\ task_results' = d.results
                /\ last' = [file |-> cur_file, pos |-> cur_pos + 1, topic |-> record.topic,
                            outcomes |-> d.outcomes]
                /\ IF d.raised
                   THEN /\ stderr_files' = stderr_files \cup {cur_file}
                        /\ pc' = "loop"
                        /\ cur_file' = <<>>
                        /\ cur_pos' = 0
                   ELSE /\ cur_pos' = cur_pos + 1
                        /\ UNCHANGED <<stderr_files, pc, cur_file>>
  /\ UNCHANGED <<analysis_tasks, mcap_paths, task_processors, topic_to_processors,
                 pending, cur_fail, opened, ref_results>>
  /\ UNCHANGED <<ta_vars, tp_vars, vc_vars>>

\* an except clause that ends the loop (break) where the code has continue
ReadFails_break ==
  /\ pc = "reading"
  /\ cur_pos = cur_fail
  /\ stderr_files' = stderr_files \cup {cur_file}
  /\ pc' = "loop"
  /\ cur_file' = <<>>
  /\ cur_pos' = 0
  /\ pending' = <<>>
  /\ UNCHANGED <<analysis_tasks, mcap_paths, task_processors, topic_to_processors,
                 task_results, cur_fail, opened, last, ref_results>>
  /\ UNCHANGED <<ta_vars, tp_vars, vc_vars>>

\* the reader raises: the except clause prints the error and the loop goes on
ReadFails ==
  /\ pc = "reading"
  /\ cur_pos = cur_fail
  /\ stderr_files' = stderr_files \cup {cur_file}
  /\ pc' = "loop"
  /\ cur_file' = <<>>
  /\ cur_pos' = 0
  /\ UNCHANGED <<analysis_tasks, mcap_paths, task_processors, topic_to_processors,
                 task_results, pending, cur_fail, opened, last, ref_results>>
  /\ UNCHANGED <<ta_vars, tp_vars, vc_vars>>

\* the reader is exhausted and the with block closes the file
CloseFile ==
  /\ pc = "reading"
  /\ cur_pos = Len(Disk(cur_file))
  /\ cur_pos # cur_fail
  /\ pc' = "loop"
  /\ cur_file' = <<>>
  /\ cur_pos' = 0
  /\ UNCHANGED <<analysis_tasks, mcap_paths, task_processors, topic_to_processors,
                 task_results, pending, cur_fail, stderr_files, opened, last, ref_results>>
  /\ UNCHANGED <<ta_vars, tp_vars, vc_vars>>

\* the loop is over: one DataFrame per task, its rows in the order appended
Finish ==
  /\ pc = "loop"
  /\ pending = <<>>
  /\ pc' = "done"
  /\ UNCHANGED <<analysis_tasks, mcap_paths, task_processors, topic_to_processors,
                 task_results, pending, cur_file, cur_pos, cur_fail, stderr_files, opened,
                 last, ref_results>>
  /\ UNCHANGED <<ta_vars, tp_vars, vc_vars>>

Next ==
  \/ Construct
  \/ StartProcessFiles
  \/ OpenFile
  \/ OpenFails
  \/ SkipRecord
  \/ DispatchMessage
  \/ ReadFails
  \/ CloseFile
  \/ Finish

Spec == Init /\ [][Next]_vars

(***************************************************************************)
(* A TimestampAnalyzer is made of an analysis type text and analyzes one   *)
(* parsed_value column                                                     *)
(***************************************************************************)

\* the most rows of a column analyzed
MaxRows == 3

Str_timestamp == <<"t", "i", "m", "e", "s", "t", "a", "m", "p">>

\* timestamp(freq:text)
TimestampConfig(text) == Str_timestamp \o <<"(">> \o Str_freq \o text \o <<")">>

TimestampConfigs ==
  { TimestampConfig(<<"1", "0", "0">>),
    TimestampConfig(<<"1", "0">>),
    TimestampConfig(<<"6", "0">>),
    TimestampConfig(<<"2", ".", "5">>),
    TimestampConfig(<<"0">>),
    TimestampConfig(<<"1", ".", "2", ".", "3">>),
    Str_timestamp }

\* the values of a parsed_value column: timestamps in nanoseconds, and the
\* None of a row whose expression gave no value
ColumnValues == {IntV(0), IntV(10000000), IntV(19500000), IntV(50000002), NoneV}

Columns == UNION {[1..n -> ColumnValues] : n \in 0..MaxRows}

\* no McapReader is at work
ReaderIdle ==
  /\ analysis_tasks = <<>>
  /\ mcap_paths = <<>>
  /\ pc = "idle"
  /\ task_processors = <<>>
  /\ topic_to_processors = <<>>
  /\ task_results = <<>>
  /\ pending = <<>>
  /\ cur_file = <<>>
  /\ cur_pos = 0
  /\ cur_fail = NoFailure
  /\ stderr_files = {}
  /\ opened = <<>>
  /\ last = NoMessage
  /\ ref_results = <<>>

InitTimestamp ==
  /\ ReaderIdle
  /\ ProcessorIdle
  /\ CoercerIdle
  /\ analysis_type_config \in TimestampConfigs
  /\ df \in Columns
  /\ ta_pc = "new"
  /\ analyzer = <<>>
  /\ summary = <<>>

\* get_analyzer: TimestampAnalyzer(analysis_type), which may raise
ConstructAnalyzer ==
  /\ ta_pc = "new"
  /\ \E made \in {TimestampAnalyzer(analysis_type_config)} :
       IF made.st = "raise"
       THEN ta_pc' = "failed" /\ analyzer' = made
       ELSE ta_pc' = "ready" /\ analyzer' = made.v
  /\ UNCHANGED <<analysis_type_config, df, summary>>
  /\ UNCHANGED <<reader_vars, tp_vars, vc_vars>>

\* analyzer.analyze(df)
Analyze ==
  /\ ta_pc = "ready"
  /\ ta_pc' = "done"
  /\ summary' = analyze(analyzer, df)
  /\ UNCHANGED <<analysis_type_config, df, analyzer>>
  /\ UNCHANGED <<reader_vars, tp_vars, vc_vars>>

NextTimestamp ==
  \/ ConstructAnalyzer
  \/ Analyze

SpecTimestamp == InitTimestamp /\ [][NextTimestamp]_vars

(***************************************************************************)
(* A TaskProcessor on its own: constructed from a task, then given         *)
(* messages in any order                                                   *)
(***************************************************************************)

\* the most calls of process_message on a processor
MaxCalls == 3

Name_ab == <<"a", "b">>

\* the tasks of TaskUniverse and
\* attr:    a          a + a.real
\* method:  a          a + a.conjugate()
\* undecl:  a          a + z
\* suffix:  ab, b      ab(type:int32) + b
\* own:     ab, b      ab(type:int32) + b(type:float64)
ProcessorTasks ==
  TaskUniverse \cup
  { Task("attr", "/x", Name_a, <<"a", " ", "+", " ", "a", ".">> \o Str_real),
    Task("method", "/x", Name_a,
         <<"a", " ", "+", " ", "a", ".">> \o Str_conjugate \o <<"(", ")">>),
    Task("undecl", "/x", Name_a, <<"a", " ", "+", " ", "z">>),
    Task("suffix", "/x", <<"a", "b", ",", " ", "b">>,
         Name_ab \o <<"(">> \o Str_type \o Str_int \o <<"3", "2", ")", " ", "+", " ", "b">>),
    Task("own", "/x", <<"a", "b", ",", " ", "b">>,
         Name_ab \o <<"(">> \o Str_type \o Str_int \o <<"3", "2", ")", " ", "+", " ", "b", "(">>
           \o Str_type \o Str_float \o <<"6", "4", ")">>) }

Msg_ab == MsgV(Name_a :> IntV(5) @@ Name_b :> IntV(7) @@ Name_ab :> IntV(40))

\* the decoded messages given to the processor
ProcessorMessages ==
  {Msg_full, Msg_zero, Msg_null, Msg_partial, Msg_list, Msg_ab}

\* the log times of the messages
LogTimes == {11, 12}

InitProcessor ==
  /\ ReaderIdle
  /\ TimestampIdle
  /\ CoercerIdle
  /\ processor_task \in ProcessorTasks
  /\ task_processor = <<>>
  /\ aeval = <<>>
  /\ calls = <<>>
  /\ tp_pc = "new"

\* TaskProcessor(task)
ConstructProcessor ==
  /\ tp_pc = "new"
  /\ tp_pc' = "ready"
  /\ task_processor' = TaskProcessor(processor_task)
  /\ aeval' = Interpreter
  /\ UNCHANGED <<processor_task, calls>>
  /\ UNCHANGED <<reader_vars, ta_vars, vc_vars>>

\* task_processor.process_message(mcap_timestamp_ns, ros_msg)
ProcessMessage ==
  /\ tp_pc = "ready"
  /\ Len(calls) < MaxCalls
  /\ \E mcap_timestamp_ns \in LogTimes, ros_msg \in ProcessorMessages :
       \E call \in {process_message_call(task_processor, aeval, mcap_timestamp_ns, ros_msg)} :
         /\ aeval' = call.aeval
         /\ calls' = Append(calls, [mcap_timestamp_ns |-> mcap_timestamp_ns,
                                    ros_msg |-> ros_msg, result |-> call.result])
  /\ UNCHANGED <<processor_task, task_processor, tp_pc>>
  /\ UNCHANGED <<reader_vars, ta_vars, vc_vars>>

NextProcessor ==
  \/ ConstructProcessor
  \/ ProcessMessage

SpecProcessor == InitProcessor /\ [][NextProcessor]_vars

(***************************************************************************)
(* _apply_directive on its own: a byte-range directive applied to a value  *)
(***************************************************************************)

\* the largest start and the largest length of the directives applied
MaxStart == 1
MaxLength == 8

\* the keys of format_map
TypeNames ==
  {Str_int \o w : w \in {<<"8">>, <<"1", "6">>, <<"3", "2">>, <<"6", "4">>}}
    \cup {Str_uint \o w : w \in {<<"8">>, <<"1", "6">>, <<"3", "2">>, <<"6", "4">>}}
    \cup {Str_float \o w : w \in {<<"3", "2">>, <<"6", "4">>}}

\* the decimal digit d as a character
Digit(d) == CHOOSE c \in Digits : DigitVal(c) = d

\* the directive text 'byte:START-LENGTH' or 'byte:START-LENGTH,type:NAME'
ByteDirective(start, length, type_name) ==
  Str_byte \o <<Digit(start), "-", Digit(length)>>
    \o (IF type_name = <<>> THEN <<>> ELSE Str_comma_type \o type_name)

\* payloads: numbers (1.0, 10.0, 1.5, -2.5, -0.75), zeros of both signs,
\* infinities and NaNs of both float formats, small and negative integers,
\* and payloads too short
Payloads ==
  { <<0, 0, 0, 0, 0, 0, 240, 63, 0>>,
    <<0, 0, 32, 65, 0, 0, 0, 0, 0>>,
    <<0, 0, 0, 0, 0, 0, 36, 64, 0>>,
    <<0, 0, 192, 63, 0, 0, 32, 192, 0>>,
    <<0, 0, 0, 0, 0, 0, 232, 191, 0>>,
    <<0, 0, 0, 128, 0, 0, 0, 128, 0>>,
    <<0, 0, 128, 127, 0, 0, 128, 255, 0>>,
    <<0, 0, 192, 127, 0, 0, 192, 255, 0>>,
    <<1, 0, 128, 127, 1, 0, 128, 255, 0>>,
    <<0, 0, 0, 0, 0, 0, 240, 127, 0>>,
    <<1, 0, 0, 0, 0, 0, 240, 127, 0>>,
    <<0, 0, 0, 0, 0, 0, 248, 255, 0>>,
    <<255, 255, 255, 255, 255, 255, 255, 255, 255>>,
    <<1, 2, 3, 4, 0, 0, 0, 0, 0>>,
    <<128, 255, 127, 0, 1, 0, 0, 0, 0>>,
    <<1, 2, 3>>,
    <<>> }

\* the raw values: bytes objects and lists of ints
RawFields ==
  {BytesV(bs) : bs \in Payloads}
    \cup {ListV([i \in DOMAIN bs |-> IntV(bs[i])]) : bs \in Payloads}

InitCoercer ==
  /\ ReaderIdle
  /\ TimestampIdle
  /\ ProcessorIdle
  /\ byte_start \in 0..MaxStart
  /\ byte_length \in 1..MaxLength
  /\ byte_type \in TypeNames \cup {<<>>}
  /\ raw_field \in RawFields
  /\ coerced = <<>>
  /\ vc_pc = "new"

\* self._apply_directive(raw_val, directive)
ApplyDirective ==
  /\ vc_pc = "new"
  /\ vc_pc' = "done"
  /\ coerced' = apply_directive(raw_field, ByteDirective(byte_start, byte_length, byte_type))
  /\ UNCHANGED <<byte_start, byte_length, byte_type, raw_field>>
  /\ UNCHANGED <<reader_vars, ta_vars, tp_vars>>

NextCoercer == ApplyDirective

SpecCoercer == InitCoercer /\ [][NextCoercer]_vars

(***************************************************************************)
(* Properties                                                              *)
(***************************************************************************)

\* the record the processors were last offered, and the processors of its
\* topic in the order the dispatcher calls them
LastRecord == Disk(last.file)[last.pos]
LastProcessors ==
  [i \in 1..Len(topic_to_processors[last.topic]) |->
     task_processors[topic_to_processors[last.topic][i]]]

Dispatched == last # NoMessage

AllRows == UNION {Range(task_results[id]) : id \in DOMAIN task_results}

\* the file a row was read from: the log times of the files are distinct
FileOfRow(row) ==
  CHOOSE path \in FileNames :
    \E i \in 1..Len(Disk(path)) : Disk(path)[i].log_time = row.mcap_timestamp_ns

PosOfRow(row) ==
  CHOOSE i \in 1..Len(Disk(FileOfRow(row))) :
    Disk(FileOfRow(row))[i].log_time = row.mcap_timestamp_ns

IsPrefix(p, q) == Len(p) <= Len(q) /\ SubSeq(q, 1, Len(p)) = p

\* C1: every accumulated row passed field resolution, coercion and expression
\* evaluation: each declared field has a raw value and parsed_value is the
\* value of the expression, never the None of a failed evaluation.
C1_RowsFullyEvaluated ==
  \A row \in AllRows :
    /\ \A f \in DOMAIN row.raw : ~IsNone(row.raw[f])
    /\ ~IsNone(row.parsed_value)

\* C2: a message is offered to every processor registered for its topic: each
\* of them that makes a row of the message has that row accumulated, whatever
\* the other processors of the topic did with the message.
C2_EveryProcessorGetsTheMessage ==
  Dispatched =>
    \A i \in 1..Len(LastProcessors) :
      LET r == process_message(LastProcessors[i], LastRecord.log_time, LastRecord.ros_msg)
      IN  r.st = "row" => r.row \in Range(task_results[LastProcessors[i].task_id])

\* the step in which open() raises, and the step in which the reader raises
\* part-way through the open file
OpenFailureStep == pc = "loop" /\ pc' = "loop" /\ opened' # opened
ReadFailureStep == pc = "reading" /\ cur_pos = cur_fail /\ pc' # "reading"

RowsKept ==
  \A id \in DOMAIN task_results :
    id \in DOMAIN task_results' /\ IsPrefix(task_results[id], task_results'[id])

C3_Step ==
  /\ RowsKept
  /\ OpenFailureStep =>
       /\ Head(pending) \in stderr_files'
       /\ pending' = Tail(pending)
       /\ task_results' = task_results
  /\ ReadFailureStep =>
       /\ cur_file \in stderr_files'
       /\ pc' = "loop"
       /\ pending' = pending
       /\ task_results' = task_results
  /\ pc' = "done" => opened' = natsorted(mcap_paths) /\ pending' = <<>>

\* C3: when reading a file fails, on open or part-way through its messages,
\* the failure is logged and the loop goes on with every remaining file, so
\* that at the end every path was reached; no step ever takes an accumulated
\* row away, so the rows of earlier files and of the failing file are returned.
C3_ReadFailureSkipsOnlyTheFile == [][C3_Step]_vars

AllWellConfigured ==
  \A i \in 1..Len(task_processors) : WellConfigured(task_processors[i])

\* the run is over; a file whose reading failed (no processor of this
\* configuration raises) gave rows, and so did a file read after it
C3_Witness ==
  /\ pc = "done"
  /\ AllWellConfigured
  /\ \E r1, r2 \in AllRows :
       /\ FileOfRow(r1) \in stderr_files
       /\ FileOfRow(r2) \notin stderr_files
       /\ \E i, j \in 1..Len(opened) :
            i < j /\ opened[i] = FileOfRow(r1) /\ opened[j] = FileOfRow(r2)

\* C4: a task with a configuration error aborts only itself: at the end every
\* other task has exactly the rows of a run in which the faulty tasks are not
\* configured (ref_results, read from the same files with the same failures).
C4_FaultyTaskAbortsOnlyItself ==
  pc = "done" =>
    \A i \in 1..Len(task_processors) :
      WellConfigured(task_processors[i]) =>
        task_results[task_processors[i].task_id] = ref_results[task_processors[i].task_id]

ConfigErrors == {"ValueError: Unknown parsing directive", "ValueError: Unsupported type"}

\* C5: unrecognized directive syntax and an unsupported type of a byte-range
\* directive are detected at construction: no call of process_message is the
\* first to raise one of them.
C5_ConfigErrorsNotRaisedByMessages ==
  \A i \in DOMAIN last.outcomes : last.outcomes[i].exc \notin ConfigErrors

\* the number in a file name: the names differ in it only, so it is their
\* natural order
FileNumber(path) == DigitsValue(Tail(path))

RowBefore(r1, r2) ==
  \/ FileNumber(FileOfRow(r1)) < FileNumber(FileOfRow(r2))
  \/ FileOfRow(r1) = FileOfRow(r2) /\ PosOfRow(r1) < PosOfRow(r2)

\* C6: the rows of every task are ordered by file in natural filename order,
\* whatever the order of the paths given, and within a file in the order the
\* messages were yielded; no row of a later file precedes one of an earlier.
C6_RowsInNaturalFileOrder ==
  \A id \in DOMAIN task_results :
    \A i, j \in 1..Len(task_results[id]) :
      i < j => RowBefore(task_results[id][i], task_results[id][j])

\* paths given out of natural order, and a task with rows of two files, two
\* of them of one file
C6_Witness ==
  /\ pc = "done"
  /\ \E i, j \in 1..Len(mcap_paths) :
       i < j /\ FileNumber(mcap_paths[j]) < FileNumber(mcap_paths[i])
  /\ \E id \in DOMAIN task_results :
       \E r1, r2, r3 \in Range(task_results[id]) :
         /\ FileOfRow(r1) = FileOfRow(r2) /\ r1 # r2
         /\ FileOfRow(r3) = File_10 /\ FileOfRow(r1) = File_2

\* C7: after construction every declared field has a resolved directive, a
\* field with an index segment included, and no message is dropped because a
\* directive is missing.
C7_EveryFieldHasADirective ==
  /\ \A i \in 1..Len(task_processors) :
       \A field \in Range(task_processors[i].field_names) :
         field \in DOMAIN task_processors[i].directives
  /\ \A i \in DOMAIN last.outcomes : last.outcomes[i].warn # "Directive not found"

\* does the text s hold the declared field name ending just before position i
FieldEndsBefore(s, i, field_names) ==
  \E f \in Range(field_names) :
    /\ i > Len(f)
    /\ SubSeq(s, i - Len(f), i - 1) = f
    /\ i - Len(f) = 1 \/ s[i - Len(f) - 1] \notin WordDotChars

\* the parse string without the annotations (...) that directly follow a
\* declared field name, read from position i on
RECURSIVE StripAnnotations(_, _, _)
StripAnnotations(s, i, field_names) ==
  IF i > Len(s) THEN <<>>
  ELSE IF s[i] = "(" /\ FieldEndsBefore(s, i, field_names)
            /\ IndexFrom(s, ")", i) # 0
       THEN StripAnnotations(s, IndexFrom(s, ")", i) + 1, field_names)
       ELSE <<s[i]>> \o StripAnnotations(s, i + 1, field_names)

\* C8: the bare expression is the parse string with only the annotations that
\* directly follow a field name removed; grouping parentheses are retained.
C8_OnlyAnnotationsStripped ==
  \A i \in 1..Len(task_processors) :
    task_processors[i].expression =
      StripAnnotations(task_processors[i].parse_string, 1, task_processors[i].field_names)

\* a declared field as process_message wants it: read, with a directive, and
\* coerced to a value
FieldPasses(self, ros_msg, field) ==
  /\ field \in DOMAIN self.directives
  /\ With(get_field_value(ros_msg, field), LAMBDA raw :
       /\ raw.st = "ok"
       /\ ~IsNone(raw.v)
       /\ With(apply_directive(raw.v, self.directives[field]), LAMBDA parsed :
            parsed.st = "ok" /\ ~IsNone(parsed.v)))

\* a missing path segment or an out-of-range index
SegmentMissing(ros_msg, field) ==
  With(field_walk(ros_msg, split(field, ".")), LAMBDA r :
    r.st = "raise" /\ r.exc \in {"AttributeError", "IndexError"})

\* a byte-range directive on a bytes value whose slice is shorter than the
\* length the directive asks for
SliceShort(self, ros_msg, field) ==
  /\ field \in DOMAIN self.directives
  /\ With(re_fullmatch_byte(self.directives[field]), LAMBDA m :
       /\ m.found
       /\ With(field_walk(ros_msg, split(field, ".")), LAMBDA r :
            /\ r.st = "ok"
            /\ r.v.k = "bytes"
            /\ Len(py_slice(r.v.v, DigitsValue(m.start), DigitsValue(m.length)))
                 < DigitsValue(m.length)))

\* the processor meets a FieldNotFound condition on the message: a declared
\* field is not found, the fields declared before it being passed
MeetsFieldNotFound(self, ros_msg) ==
  \E i \in 1..Len(self.field_names) :
    /\ \/ SegmentMissing(ros_msg, self.field_names[i])
       \/ SliceShort(self, ros_msg, self.field_names[i])
    /\ \A j \in 1..(i - 1) : FieldPasses(self, ros_msg, self.field_names[j])

C9_Step ==
  last' # last =>
    \A i \in 1..Len(last'.outcomes) :
      LET ids == topic_to_processors[last'.topic]
          processor == task_processors[ids[i]]
      IN  MeetsFieldNotFound(processor, Disk(last'.file)[last'.pos].ros_msg) =>
            /\ last'.outcomes[i].st = "none"
            /\ task_results'[processor.task_id] = task_results[processor.task_id]
            /\ i < Len(ids) => Len(last'.outcomes) > i
            /\ i = Len(last'.outcomes) =>
                 pc' = "reading" /\ cur_file' = cur_file /\ cur_pos' = cur_pos + 1

\* C9: a FieldNotFound condition a processor meets on a message (a missing
\* path segment, an out-of-range index, a byte slice shorter than asked for)
\* makes process_message return no row for that task and that message: it
\* raises nothing, the next processor of the topic is still called, and when
\* it was the last one called the file stays open at its next message.
C9_FieldNotFoundSkipsTheMessageOnly == [][C9_Step]_vars

\* two processors were offered a later message of a file and each has its
\* row, after one of them met FieldNotFound on an earlier message of the
\* file and has no row of it
C9_Witness ==
  /\ Dispatched
  /\ pc = "reading"
  /\ Len(LastProcessors) >= 2
  /\ \A i \in 1..Len(LastProcessors) :
       \E row \in Range(task_results[LastProcessors[i].task_id]) :
         row.mcap_timestamp_ns = LastRecord.log_time
  /\ \E i \in 1..Len(LastProcessors), k \in 1..(last.pos - 1) :
       /\ Disk(last.file)[k].topic = last.topic
       /\ MeetsFieldNotFound(LastProcessors[i], Disk(last.file)[k].ros_msg)
       /\ \A row \in Range(task_results[LastProcessors[i].task_id]) :
            row.mcap_timestamp_ns # Disk(last.file)[k].log_time

\* the declared fields of a processor all resolve on the message, one of them
\* to null, and none carries an annotation: each is read with Default
ResolvesWithNull(self, ros_msg) ==
  /\ \A field \in Range(self.field_names) :
       /\ field_walk(ros_msg, split(field, ".")).st = "ok"
       /\ field \in DOMAIN self.directives => self.directives[field] = Str_default
  /\ \E field \in Range(self.field_names) :
       IsNone(field_walk(ros_msg, split(field, ".")).v)

\* the resolved values of the declared fields, nulls included, by safe name
ResolvedSymtable(self, ros_msg) ==
  [n \in {safe_name(field) : field \in Range(self.field_names)} |->
     field_walk(ros_msg,
                split(CHOOSE field \in Range(self.field_names) : safe_name(field) = n,
                      ".")).v]

\* C10: a declared field that resolves to a legitimate null is not treated as
\* FieldNotFound: with Default the null is passed through, so a message whose
\* fields all resolve and whose expression has a value makes a row.
C10_NullIsPassedThrough ==
  Dispatched =>
    \A i \in 1..Len(last.outcomes) :
      ( /\ ResolvesWithNull(LastProcessors[i], LastRecord.ros_msg)
        /\ ~IsNone(aeval_eval(safe_expression(LastProcessors[i].expression,
                                              LastProcessors[i].field_names, 1),
                              ResolvedSymtable(LastProcessors[i], LastRecord.ros_msg))) )
      => last.outcomes[i].st = "row"

Analyzed == ta_pc = "done" /\ summary.st = "ok" /\ ~summary.v.empty

\* C11: every jitter deviation ((t - t0 + T/2) mod T) - T/2 lies in the
\* half-open interval [-T/2, +T/2), and the deviation of the first timestamp
\* is 0, for every positive frequency and every timestamp series.
C11_JitterInHalfOpenInterval ==
  Analyzed =>
    /\ \A i \in DOMAIN summary.v.deviation_ns :
         /\ ~f64_less(summary.v.deviation_ns[i],
                      f64_neg(f64_div(analyzer.expected_period_ns, f64_from_int(2))))
         /\ f64_less(summary.v.deviation_ns[i],
                     f64_div(analyzer.expected_period_ns, f64_from_int(2)))
    /\ f64_is_zero(summary.v.deviation_ns[1])

\* the timestamps of a column whose values are all integers
ColumnInts(column) == [i \in DOMAIN column |-> column[i].num]

\* the periods of a column that are strictly positive, in order
PositivePeriods(column) ==
  SelectSeq([i \in 1..(Len(column) - 1) |-> ColumnInts(column)[i + 1] - ColumnInts(column)[i]],
            LAMBDA p : p > 0)

\* C12: analyze returns an empty summary for fewer than 2 rows and raises no
\* error for 2 rows or more; the periods are the n-1 consecutive differences,
\* the frequencies one value 1e9/period for each strictly positive period; at
\* 100 Hz on [0, 10_000_000, 19_500_000] the periods are [10_000_000,
\* 9_500_000] and the jitter is [0, 0, -500_000].
C12_PeriodsAndFrequencies ==
  ta_pc = "done" =>
    /\ summary.st = "ok"
    /\ Len(df) < 2 => summary.v = EmptySummary
    /\ (Len(df) >= 2 /\ summary.st = "ok") =>
         /\ ~summary.v.empty
         /\ Len(summary.v.period_ns) = Len(df) - 1
         /\ \A i \in 1..(Len(df) - 1) :
              summary.v.period_ns[i] = f64_from_int(df[i + 1].num - df[i].num)
         /\ Len(summary.v.frequency_hz) = Len(PositivePeriods(df))
         /\ \A i \in DOMAIN summary.v.frequency_hz :
              summary.v.frequency_hz[i] =
                f64_div(f64_from_int(NsPerSecond), f64_from_int(PositivePeriods(df)[i]))
    /\ ( /\ analysis_type_config = TimestampConfig(<<"1", "0", "0">>)
         /\ df = <<IntV(0), IntV(10000000), IntV(19500000)>> ) =>
         /\ summary.v.period_ns = <<f64_from_int(10000000), f64_from_int(9500000)>>
         /\ summary.v.deviation_ns =
              <<f64_from_int(0), f64_from_int(0), f64_from_int(-500000)>>

\* the identifiers the field mapping of a processor binds
DeclaredNames(self) == {safe_name(self.field_names[i]) : i \in DOMAIN self.field_names}

\* the tokens of the expression process_message evaluates
ExpressionTokens(self) == tokenize(safe_expression(self.expression, self.field_names, 1))

\* the expression has an attribute access, a call, or a name that is not a
\* declared field
OutsideArithmetic(self) ==
  LET toks == ExpressionTokens(self)
  IN  \E i \in DOMAIN toks :
        \/ toks[i].t = "op" /\ toks[i].s = "."
        \/ /\ toks[i].t = "op" /\ toks[i].s = "("
           /\ i > 1
           /\ toks[i - 1].t = "name" \/ (toks[i - 1].t = "op" /\ toks[i - 1].s = ")")
        \/ toks[i].t = "name" /\ toks[i].s \notin DeclaredNames(self)

\* C13: an expression with an attribute access, a function or method call,
\* or an identifier that is not a declared field never yields a computed
\* parsed_value: no call of process_message on such a processor returns a
\* row whose parsed_value is a value.
C13_OnlyArithmeticOverFields ==
  tp_pc = "ready" /\ OutsideArithmetic(task_processor) =>
    \A i \in DOMAIN calls :
      calls[i].result.st = "row" => IsNone(calls[i].result.row.parsed_value)

\* C14: the result of process_message for a (timestamp, message) pair is the
\* same whatever was processed before it: two calls on the same processor
\* with the same pair have the same result, wherever they are in the
\* sequence of calls.
C14_ResultIndependentOfHistory ==
  \A i, j \in DOMAIN calls :
    /\ calls[i].mcap_timestamp_ns = calls[j].mcap_timestamp_ns
    /\ calls[i].ros_msg = calls[j].ros_msg
    => calls[i].result = calls[j].result

\* a message gave a row with a value, a different message then made the
\* expression fail, and the first message is processed again
C14_Witness ==
  /\ Len(calls) = 3
  /\ calls[1].mcap_timestamp_ns = calls[3].mcap_timestamp_ns
  /\ calls[1].ros_msg = calls[3].ros_msg
  /\ calls[1].ros_msg # calls[2].ros_msg
  /\ calls[1].result.st = "row" /\ ~IsNone(calls[1].result.row.parsed_value)
  /\ calls[2].result.st = "row" /\ IsNone(calls[2].result.row.parsed_value)

\* the positions of the parse string where the whole name field begins and
\* an annotation (...) follows it: the name is not the end of a longer name
OwnAnnotations(s, field) ==
  {p \in DirectiveMatches(s, field) : p = 1 \/ s[p - 1] \notin WordDotChars}

\* the directive annotated on the first occurrence of the field's own whole
\* name, Default when it has no annotation
OwnDirective(s, field) ==
  LET ps == OwnAnnotations(s, field)
  IN  IF ps = {} THEN Str_default
      ELSE LET p == CHOOSE q \in ps : \A r \in ps : q <= r
               open == p + Len(field)
           IN  SubSeq(s, open + 1, IndexFrom(s, ")", open + 1) - 1)

\* C16: the directive resolved for a declared field is the one annotated on
\* an occurrence of that field's own whole name, Default when there is none;
\* a field whose name ends a longer name does not take that name's directive.
C16_DirectiveOfOwnWholeName ==
  tp_pc = "ready" =>
    \A field \in DOMAIN task_processor.directives :
      task_processor.directives[field] = OwnDirective(task_processor.parse_string, field)

\* the w little-endian bytes of m >= 0
RECURSIVE ToBytes(_, _)
ToBytes(m, w) == IF w = 0 THEN <<>> ELSE <<m % 256>> \o ToBytes(m \div 256, w - 1)

\* the number whose bits are given, the highest first
RECURSIVE BitsValue(_)
BitsValue(bits) ==
  IF bits = <<>> THEN 0
  ELSE 2 * BitsValue(SubSeq(bits, 1, Len(bits) - 1)) + bits[Len(bits)]

\* the little-endian bytes of the bits, the highest bit first
RECURSIVE BytesOfBits(_)
BytesOfBits(bits) ==
  IF bits = <<>> THEN <<>>
  ELSE BytesOfBits(Tail_from(bits, 9)) \o <<BitsValue(SubSeq(bits, 1, 8))>>

\* struct.pack of the integer n in the little-endian integer format t
pack_int(t, n) ==
  IF n >= 0 THEN ToBytes(n, t.bits \div 8)
  ELSE [i \in 1..(t.bits \div 8) |-> 255 - ToBytes(-n - 1, t.bits \div 8)[i]]

\* struct.pack of the Python float v in the little-endian format t: the bits
\* sign, exponent, fraction.  A NaN packed as binary32 keeps the 22 bits of
\* its fraction below the quiet bit, which is set.
pack_float(t, v) ==
  LET expBits == IF t.bits = 32 THEN 8 ELSE 11
      fracBits == t.bits - 1 - expBits
      bias == 2 ^ (expBits - 1) - 1
      ones == [i \in 1..expBits |-> 1]
      zeros(n) == [i \in 1..n |-> 0]
  IN  BytesOfBits(
        IF v.den = 0 /\ v.num = 0
        THEN IF t.bits = 64 THEN v.bits
             ELSE <<v.bits[1]>> \o ones \o <<1>> \o SubSeq(v.bits, 14, 35)
        ELSE IF v.den = 0
             THEN <<IF v.num < 0 THEN 1 ELSE 0>> \o ones \o zeros(fracBits)
        ELSE IF v.num = 0
             THEN <<IF "negative" \in DOMAIN v THEN 1 ELSE 0>> \o zeros(t.bits - 1)
        ELSE LET m == Abs(v.num)
                 L == BitLen(m)
                 biased == L - 1 - (BitLen(v.den) - 1) + bias
             IN  <<IF v.num < 0 THEN 1 ELSE 0>> \o Bits(biased, expBits)
                   \o Bits(m - 2 ^ (L - 1), L - 1) \o zeros(fracBits - (L - 1)))

\* struct.pack(format_map[type_name], value)
struct_pack(type_name, value) ==
  IF TypeOf(type_name).family = Str_float
  THEN pack_float(TypeOf(type_name), value)
  ELSE pack_int(TypeOf(type_name), value.num)

\* the bytes [start, start + length) of the raw value
ByteSlice(raw_value, start, length) ==
  [i \in 1..length |->
     IF raw_value.k = "bytes" THEN raw_value.v[start + i] ELSE raw_value.v[start + i].num]

\* C15: a byte-range directive with a supported type_name, applied to a value
\* of at least start + length bytes, returns a value whose encoding in the
\* same little-endian format is the bytes [start, start + length); without
\* type_name it returns the slice itself.
C15_ByteRangeRoundTrip ==
  vc_pc = "done" /\ Len(raw_field.v) >= byte_start + byte_length =>
    IF byte_type = <<>>
    THEN coerced = Ok(BytesV(ByteSlice(raw_field, byte_start, byte_length)))
    ELSE /\ coerced.st = "ok"
         /\ coerced.v.k # "unmodelled" =>
              struct_pack(byte_type, coerced.v)
                = ByteSlice(raw_field, byte_start, byte_length)
====
